---- MODULE Spec2Model ----
(***************************************************************************)
(* Signal execution engine of the trading webhook service: the per-strategy *)
(* processing guard and cooldown, the close / buy retry algorithms, the     *)
(* broker client and the cash ledger.                                       *)
(*                                                                          *)
(* One step of the model is one run of a coroutine between two suspension   *)
(* points (an await of the broker's HTTP answer, of a sleep, or of a        *)
(* gather): asyncio runs such a segment without interleaving.  A sleep     *)
(* that only precedes the next request is merged with the wait for that     *)
(* request's answer, since nothing is read or written in between.           *)
(*                                                                          *)
(* api_client.py and cooldown_manager.py name the strategy's owner          *)
(* strategy.user_id where strategy.py names it strategy.owner; the model    *)
(* reads both as the owner of the strategy, whose webhook URL is            *)
(* configured.  Log lines are not modelled.                                 *)
(***************************************************************************)
EXTENDS Integers, Sequences, FiniteSets, TLC

(* ------------------------- program constants -------------------------- *)
MAX_RETRIES == 0
MINIMUM_CASH_BALANCE == 5
\* BUY_RETRY_REDUCTION_PERCENT is 0.1; kept in tenths of a percent
BUY_RETRY_REDUCTION_TENTHS == 1
MAX_BUY_RETRIES == 20
COOLDOWN_PERIOD_HOURS == 12
MAX_CLOSE_RETRIES == 10
MAX_API_CALLS == 100

(* ------------------------------ bounds -------------------------------- *)
MaxTasks == 2
MaxTime == 19
MaxCalls == 104

(* --------------------------- the environment -------------------------- *)
\* Python's None for a timestamp, a price or a quantity
None == 0 - 1
\* a JSON value that is not a number (a price sent as text)
NotANumber == 0 - 2
\* a null / empty trading symbol
NoSymbol == ""
\* float("nan") and float("inf"): floats that are no finite numbers
NaN == 0 - 3
Infinity == 0 - 4

\* two strategies of the same name owned by two users; "a" was created first
Strategies == {"a", "b"}
Symbols == {"AAA", "BBB"}
long_symbol == [s \in Strategies |-> "AAA"]
short_symbol == [s \in Strategies |-> IF s = "a" THEN "BBB" ELSE NoSymbol]
InitialCash == [s \in Strategies |-> IF s = "a" THEN 1000 ELSE 8]

\* how the broker endpoint answers the requests for a symbol: always the
\* same way, or with timeouts for the first `limit` requests and fills after
\* them ("recover"), or with fills for the first `limit` requests and
\* rejections after them ("first"), or with a fill for a buy of fewer than
\* `limit` shares and a rejection for more ("limit"), or with responses of
\* an unexpected shape for the first `limit` requests and fills after them
\* ("garbled")
Script(kind, limit) == [kind |-> kind, limit |-> limit]
FillPrice == [y \in Symbols |-> 10]
FillQuantity == [y \in Symbols |-> 3]

Tasks == 1..MaxTasks
ForceOps == {"force_long", "force_short", "force_close"}

VARIABLES
    now,                \* datetime.now(), in hours
    is_processing,      \* Strategy.is_processing
    in_cooldown,        \* Strategy.in_cooldown
    cooldown_end_time,  \* Strategy.cooldown_end_time
    cash_balance,       \* Strategy.cash_balance
    api_calls,          \* Strategy.api_calls
    broker,             \* the broker endpoint's behaviour per symbol
    served,             \* the requests the broker answered, per symbol
    task,               \* the background tasks running engine coroutines
    legs,               \* the close coroutines a task gathered
    max_retries,        \* SignalStackClient.max_retries
    ret                 \* what the last cooldown query returned

vars == <<now, is_processing, in_cooldown, cooldown_end_time, cash_balance,
          api_calls, broker, served, task, legs, max_retries, ret>>

Max(x, y) == IF x >= y THEN x ELSE y

\* the fields of all strategies, as one value the code's functions transform
World == [is_processing |-> is_processing, in_cooldown |-> in_cooldown,
          cooldown_end_time |-> cooldown_end_time,
          cash_balance |-> cash_balance, api_calls |-> api_calls]

(* ------------------------------ Strategy ------------------------------ *)
\* Strategy.start_cooldown
Strategy_start_cooldown(w, s, duration_hours) ==
    [w EXCEPT !.in_cooldown[s] = TRUE,
              !.cooldown_end_time[s] = now + duration_hours]

\* a stop that clears the flag and keeps the end time (a faulty variant the
\* properties of the cooldown fields must tell from the code's)
stop_keeps_end_time(w, s) == [w EXCEPT !.in_cooldown[s] = FALSE]

\* Strategy.stop_cooldown
Strategy_stop_cooldown(w, s) ==
    [w EXCEPT !.in_cooldown[s] = FALSE, !.cooldown_end_time[s] = None]

\* an expiry test that already succeeds at the end time itself (a faulty
\* variant the properties of the expiry must tell from the code's)
elapsed_at_end_time(w, s) ==
    w.cooldown_end_time[s] # None /\ now >= w.cooldown_end_time[s]

\* the expiry test of Strategy.check_cooldown
cooldown_elapsed(w, s) ==
    w.cooldown_end_time[s] # None /\ now > w.cooldown_end_time[s]

\* Strategy.check_cooldown: the value returned and the fields it leaves
check_cooldown(w, s) ==
    IF ~w.in_cooldown[s] THEN [ret |-> FALSE, w |-> w]
    ELSE IF cooldown_elapsed(w, s)
         THEN [ret |-> FALSE, w |-> Strategy_stop_cooldown(w, s)]
         ELSE [ret |-> TRUE, w |-> w]

\* Strategy.get_cooldown_info: the "active" entry and the fields it leaves
get_cooldown_info(w, s) ==
    IF ~w.in_cooldown[s] THEN [ret |-> FALSE, w |-> w]
    ELSE IF w.cooldown_end_time[s] = None THEN [ret |-> FALSE, w |-> w]
    ELSE IF w.cooldown_end_time[s] - now <= 0
         THEN [ret |-> FALSE, w |-> Strategy_stop_cooldown(w, s)]
         ELSE [ret |-> TRUE, w |-> w]

(* -------------------------- CooldownManager --------------------------- *)
\* a check that never finds the cooldown active and a start that starts
\* nothing (faulty variants the properties of the cooldown must tell from the
\* code's)
cooldown_never_active(w, s) == [ret |-> FALSE, w |-> w]
cooldown_not_started(w, s) == w

\* CooldownManager.start_cooldown
start_cooldown(w, s) == Strategy_start_cooldown(w, s, COOLDOWN_PERIOD_HOURS)

\* CooldownManager.is_in_cooldown
is_in_cooldown(w, s) == check_cooldown(w, s)

(* ------------------------- StrategyRepository ------------------------- *)
\* a history that, once full, drops the record it is given (a faulty variant
\* the properties of the call history must tell from the code's)
add_api_call_drop_newest(w, s, entry) ==
    [w EXCEPT !.api_calls[s] =
        IF Len(@) >= MAX_API_CALLS THEN @ ELSE Append(@, entry)]

\* StrategyRepository.add_api_call_sync: append, keep the last 100
add_api_call_sync(w, s, entry) ==
    LET appended == Append(w.api_calls[s], entry)
    IN [w EXCEPT !.api_calls[s] =
            IF Len(appended) > MAX_API_CALLS THEN Tail(appended) ELSE appended]

\* StrategyRepository.get_strategy: the first strategy of that name, any owner
\* (both strategies have the same name)
get_strategy == "a"

\* StrategyRepository.update_strategy(name, cash_balance = amount)
update_strategy(w, amount) == [w EXCEPT !.cash_balance[get_strategy] = amount]

(* ----------------------------- CashManager ---------------------------- *)
\* CashManager._update_strategy_cash_with_persistence
update_strategy_cash_with_persistence(w, s, new_amount) ==
    update_strategy([w EXCEPT !.cash_balance[s] = new_amount], new_amount)

\* a share count that ignores the minimum cash balance (a faulty variant the
\* properties of the share count must tell from the code's)
max_shares_unguarded(w, s, price) == w.cash_balance[s] \div price

\* CashManager.get_max_shares
get_max_shares(w, s, price) ==
    IF w.cash_balance[s] <= MINIMUM_CASH_BALANCE THEN 0
    ELSE w.cash_balance[s] \div price

\* a buy that is not booked (a faulty variant the properties of the ledger
\* must tell from the code's)
buy_not_booked(w, s, price, quantity) == w

\* CashManager.update_balance_from_buy (price and quantity are numbers)
update_balance_from_buy(w, s, price, quantity) ==
    update_strategy_cash_with_persistence(w, s,
        w.cash_balance[s] - price * quantity)

\* CashManager.update_balance_from_close (price and quantity are numbers)
update_balance_from_close(w, s, price, quantity) ==
    update_strategy_cash_with_persistence(w, s,
        w.cash_balance[s] + price * quantity)

\* float(amount): ValueError for a text that is no number; the texts "nan"
\* and "inf", and the floats they stand for, are converted like any number
float_raises_ValueError(amount) == amount = NotANumber
float(amount) == amount

\* CashManager.update_balance_manual: the value returned and the fields it
\* leaves
update_balance_manual(w, s, amount) ==
    IF float_raises_ValueError(amount) THEN [ret |-> FALSE, w |-> w]
    ELSE [ret |-> TRUE,
          w |-> update_strategy_cash_with_persistence(w, s, float(amount))]

\* price * quantity and the sum with the float balance raise TypeError
\* when the broker sent a field that is not a number
raises_TypeError(price, quantity) ==
    price = NotANumber \/ quantity = NotANumber

(* --------------------------- the broker ------------------------------- *)
\* the answer of the broker endpoint to one HTTP request for symbol y, the
\* (n+1)-th it answers for y
Respond(script, n, y, action, quantity) ==
    LET held == IF action = "buy" THEN quantity ELSE FillQuantity[y]
        mode == CASE script.kind = "recover" ->
                       IF n < script.limit THEN "timeout" ELSE "fill"
                  [] script.kind = "first" ->
                       IF n < script.limit THEN "fill" ELSE "reject"
                  [] script.kind = "garbled" ->
                       IF n < script.limit THEN "odd" ELSE "fill"
                  [] script.kind = "limit" ->
                       IF action = "buy" /\ quantity >= script.limit
                       THEN "reject" ELSE "fill"
                  [] OTHER -> script.kind
    IN CASE mode = "fill" ->
              [kind |-> "json", status |-> "filled",
               price |-> FillPrice[y], quantity |-> held]
         [] mode = "badprice" ->
              [kind |-> "json", status |-> "filled",
               price |-> NotANumber, quantity |-> held]
         [] mode = "accept" ->
              [kind |-> "json", status |-> "accepted",
               price |-> None, quantity |-> None]
         [] mode = "reject" ->
              [kind |-> "json", status |-> "ValidationError",
               price |-> None, quantity |-> None]
         [] mode = "odd" ->
              [kind |-> "json", status |-> "other",
               price |-> None, quantity |-> None]
         [] OTHER ->
              [kind |-> "timeout", status |-> "none",
               price |-> None, quantity |-> None]

(* ------------------------- SignalStackClient -------------------------- *)
\* a record of the call history: the request and the status of the response
ApiCall(payload, status) ==
    <<payload.action, payload.symbol, payload.quantity, status>>

\* a retry test that always allows one more pass (a faulty variant the
\* properties of the retry loops must tell from the code's)
retry_always_allowed(retries) == TRUE

\* _make_request: the test of its while loop
request_retry_allowed(retry_count) == retry_count <= max_retries

\* a client that takes a ValidationError for a transient failure (a faulty
\* variant the properties of the client's results must tell from the code's)
make_request_retrying_rejections(w, s, payload, resp, retry_count) ==
    LET logged == IF resp.kind = "json"
                  THEN add_api_call_sync(w, s, ApiCall(payload, resp.status))
                  ELSE w
    IN IF resp.kind = "json" /\ resp.status \in {"filled", "accepted"}
       THEN [w |-> logged, outcome |-> "success", retry_count |-> retry_count]
       ELSE IF request_retry_allowed(retry_count + 1)
       THEN [w |-> logged, outcome |-> "again",
             retry_count |-> retry_count + 1]
       ELSE [w |-> add_api_call_sync(logged, s, ApiCall(payload, "error")),
             outcome |-> "failure", retry_count |-> retry_count + 1]

\* SignalStackClient._make_request, one pass of its loop: the HTTP attempt
\* answered by resp.  outcome "again" means the loop sleeps and posts again.
make_request(w, s, payload, resp, retry_count) ==
    LET logged == IF resp.kind = "json"
                  THEN add_api_call_sync(w, s, ApiCall(payload, resp.status))
                  ELSE w
    IN IF resp.kind = "json" /\ resp.status \in {"filled", "accepted"}
       THEN [w |-> logged, outcome |-> "success", retry_count |-> retry_count]
       ELSE IF resp.kind = "json" /\ resp.status = "ValidationError"
       THEN [w |-> logged, outcome |-> "failure", retry_count |-> retry_count]
       ELSE IF request_retry_allowed(retry_count + 1)
       THEN [w |-> logged, outcome |-> "again",
             retry_count |-> retry_count + 1]
       ELSE [w |-> add_api_call_sync(logged, s, ApiCall(payload, "error")),
             outcome |-> "failure", retry_count |-> retry_count + 1]

\* a buy that reports a price whatever the broker answered (a faulty variant
\* the properties of the probe must tell from the code's)
buy_price_guessed(outcome, resp) == [success |-> TRUE, price |-> 10]

\* SignalStackClient.buy_symbol: (success, price) from the request's result
buy_symbol(outcome, resp) ==
    [success |-> outcome = "success",
     price |-> IF outcome = "success" THEN resp.price ELSE None]

\* a close that counts only a fill as a success (a faulty variant the
\* properties of the close on an empty book must tell from the code's)
close_accepted_fails(outcome, resp) ==
    IF outcome = "success" /\ resp.status = "filled"
    THEN [success |-> TRUE, price |-> resp.price, quantity |-> resp.quantity]
    ELSE [success |-> FALSE, price |-> None, quantity |-> None]

\* SignalStackClient.close_position: (success, price, quantity)
close_position(outcome, resp) ==
    IF outcome = "success" /\ resp.status = "filled"
    THEN [success |-> TRUE, price |-> resp.price, quantity |-> resp.quantity]
    ELSE [success |-> outcome = "success", price |-> None, quantity |-> None]

(* --------------------------- SignalProcessor -------------------------- *)
IdleTask ==
    [op |-> "none", s |-> "a", pc |-> "unused", sym |-> NoSymbol,
     retries |-> 0, retry_count |-> 0, shares |-> 0, sells |-> <<>>,
     sell_symbols |-> <<>>, buy |-> NoSymbol, result |-> "none",
     t0 |-> None, n |-> 0, suppressed |-> FALSE]

\* the coroutine posts a request and awaits its answer at position pc
Request(tk, pc, y) ==
    [tk EXCEPT !.pc = pc, !.sym = y, !.retries = 0, !.retry_count = 0,
               !.n = @ + 1]

\* process_signal / process_multi_symbol_signal: the plan ran to its end
process_signal_return(w, tk) ==
    [w |-> [w EXCEPT !.is_processing[tk.s] = FALSE],
     tk |-> [tk EXCEPT !.pc = "done", !.result = "success"]]

\* an except clause that reports the error and leaves the guard set (a
\* faulty variant the properties of the guard must tell from the code's)
except_keeps_guard(w, tk) ==
    [w |-> w, tk |-> [tk EXCEPT !.pc = "done", !.result = "error"]]

\* process_signal / process_multi_symbol_signal: except Exception
process_signal_except(w, tk) ==
    [w |-> [w EXCEPT !.is_processing[tk.s] = FALSE],
     tk |-> [tk EXCEPT !.pc = "done", !.result = "error"]]

\* force_long / force_short / force_close: the finally clause; the
\* coroutine returns nothing, or the exception propagates to the task
force_finally(w, tk, raised) ==
    [w |-> [w EXCEPT !.is_processing[tk.s] = FALSE],
     tk |-> [tk EXCEPT !.pc = "done",
                       !.result = IF raised THEN "raised" ELSE "returned"]]

\* the plan of task tk ran to its end
Return(w, tk) ==
    IF tk.op \in ForceOps THEN force_finally(w, tk, FALSE)
    ELSE process_signal_return(w, tk)

\* an exception left the plan of task tk
Raise(w, tk) ==
    IF tk.op \in ForceOps THEN force_finally(w, tk, TRUE)
    ELSE process_signal_except(w, tk)

\* a buy leg whose end aborts the plan with an exception (a faulty variant
\* the properties of the reported status must tell from the code's)
settle_raises(w, tk) == Raise(w, tk)

\* await asyncio.sleep(3) after the buy, before the plan ends
Settle(w, tk) == [w |-> w, tk |-> [tk EXCEPT !.pc = "settle"]]

\* a plan that closes the symbol it is about to buy (a faulty variant the
\* properties of the plan resolution must tell from the code's)
close_symbol_swapped(tk) ==
    CASE tk.op \in {"long", "force_long"} -> long_symbol[tk.s]
      [] tk.op \in {"short", "force_short"} -> short_symbol[tk.s]
      [] OTHER -> NoSymbol

\* the symbol the plan of tk closes first / buys last
CloseSymbolOf(tk) ==
    CASE tk.op \in {"long", "force_long"} -> short_symbol[tk.s]
      [] tk.op \in {"short", "force_short"} -> long_symbol[tk.s]
      [] OTHER -> NoSymbol
BuySymbolOf(tk) ==
    CASE tk.op \in {"long", "force_long"} -> long_symbol[tk.s]
      [] tk.op \in {"short", "force_short"} -> short_symbol[tk.s]
      [] OTHER -> tk.buy

\* the buy step of a plan, up to the probe request: _buy_symbol issues the
\* probe at once, _buy_symbol_all_cash only above the minimum cash
plan_buy(w, tk) ==
    LET y == BuySymbolOf(tk)
    IN IF y = NoSymbol THEN Return(w, tk)
       ELSE IF tk.op = "multi" /\ w.cash_balance[tk.s] <= 5 THEN Settle(w, tk)
       ELSE [w |-> w, tk |-> Request(tk, "probe", y)]

\* a plan that a returning close leg aborts with an exception (a faulty
\* variant the properties of the close retries must tell from the code's)
abort_after_close(w, tk) == Raise(w, tk)

\* a plan that goes to its buy step whatever is left to sell (a faulty
\* variant the properties of the sell order must tell from the code's)
plan_buy_first(w, tk) == plan_buy(w, tk)

\* what follows a close leg that returned: the next sell of the list (after
\* a pause of 1 s), or the buy step
plan_after_close(w, tk) ==
    IF tk.op = "multi" /\ tk.sells # <<>>
    THEN [w |-> w, tk |-> [Request(tk, "close", Head(tk.sells))
                              EXCEPT !.sells = Tail(tk.sells)]]
    ELSE plan_buy(w, tk)

\* _process_long_signal_dashboard / _process_short_signal_dashboard and the
\* sell loop of process_multi_symbol_signal, up to the first request
plan_start(w, tk) ==
    IF tk.op = "multi" THEN plan_after_close(w, tk)
    ELSE IF CloseSymbolOf(tk) # NoSymbol
         THEN [w |-> w, tk |-> Request(tk, "close", CloseSymbolOf(tk))]
         ELSE plan_buy(w, tk)

\* a retry that asks for the same share count again (a faulty variant the
\* properties of the sized buy must tell from the code's)
shares_not_reduced(shares) == shares

\* the share count of the next sized buy after a failed one
reduce_shares(shares) ==
    Max(1, shares - Max(1, (shares * BUY_RETRY_REDUCTION_TENTHS) \div 1000))

\* _close_symbol_position: the test of its while loop
close_retry_allowed(retries) == retries < MAX_CLOSE_RETRIES

\* _buy_symbol: the test of the while loop of the sized buy
buy_retry_allowed(retries) == retries < MAX_BUY_RETRIES

\* a buy step that runs the reduce-retry loop for every plan (a faulty
\* variant the properties of the all-cash buy must tell from the code's)
loop_for_every_plan(tk) == FALSE

\* the buy step of tk is _buy_symbol_all_cash, which places its full-size
\* order once, outside any loop
single_order(tk) == tk.op = "multi"

\* _close_symbol_position, one pass of its loop, on a leg
\* [sym, retries, retry_count, pc]: pc is "close" while a request is
\* awaited, "returned" or "raised" when the coroutine ended
close_symbol_position(w, s, leg, resp) ==
    LET payload == [action |-> "close", symbol |-> leg.sym, quantity |-> 0]
        r == make_request(w, s, payload, resp, leg.retry_count)
        c == close_position(r.outcome, resp)
    IN IF r.outcome = "again"
       THEN [w |-> r.w, leg |-> [leg EXCEPT !.retry_count = r.retry_count]]
       ELSE IF c.success
       THEN IF c.price # None /\ c.quantity # None
            THEN IF raises_TypeError(c.price, c.quantity)
                 THEN [w |-> r.w, leg |-> [leg EXCEPT !.pc = "raised"]]
                 ELSE [w |-> update_balance_from_close(r.w, s, c.price,
                                                       c.quantity),
                       leg |-> [leg EXCEPT !.pc = "returned"]]
            ELSE [w |-> r.w, leg |-> [leg EXCEPT !.pc = "returned"]]
       ELSE IF close_retry_allowed(leg.retries + 1)
       THEN [w |-> r.w, leg |-> [leg EXCEPT !.retries = @ + 1,
                                            !.retry_count = 0]]
       ELSE [w |-> r.w, leg |-> [leg EXCEPT !.retries = @ + 1,
                                            !.pc = "returned"]]

\* a sequential close leg of task tk receives its answer
close_answer(w, tk, resp) ==
    LET leg == [sym |-> tk.sym, retries |-> tk.retries,
                retry_count |-> tk.retry_count, pc |-> "close"]
        r == close_symbol_position(w, tk.s, leg, resp)
    IN CASE r.leg.pc = "close" ->
              [w |-> r.w, tk |-> [tk EXCEPT !.retries = r.leg.retries,
                                            !.retry_count = r.leg.retry_count,
                                            !.n = @ + 1]]
         [] r.leg.pc = "raised" -> Raise(r.w, tk)
         [] OTHER -> plan_after_close(r.w, tk)

\* _buy_symbol / _buy_symbol_all_cash: the 1-share probe receives its answer
probe_answer(w, tk, resp) ==
    LET payload == [action |-> "buy", symbol |-> tk.sym, quantity |-> 1]
        r == make_request(w, tk.s, payload, resp, tk.retry_count)
        b == buy_symbol(r.outcome, resp)
    IN IF r.outcome = "again"
       THEN [w |-> r.w, tk |-> [tk EXCEPT !.retry_count = r.retry_count,
                                          !.n = @ + 1]]
       ELSE IF ~b.success \/ b.price = None THEN Settle(r.w, tk)
       ELSE IF raises_TypeError(b.price, 1) THEN Raise(r.w, tk)
       ELSE LET w1 == update_balance_from_buy(r.w, tk.s, b.price, 1)
                max_shares == get_max_shares(w1, tk.s, b.price)
            IN IF max_shares <= 0 THEN Settle(w1, tk)
               ELSE [w |-> w1, tk |-> [Request(tk, "sized", tk.sym)
                                          EXCEPT !.shares = max_shares]]

\* _buy_symbol (the reduce-retry loop) / _buy_symbol_all_cash (one order):
\* a sized buy receives its answer
sized_answer(w, tk, resp) ==
    LET payload == [action |-> "buy", symbol |-> tk.sym,
                    quantity |-> tk.shares]
        r == make_request(w, tk.s, payload, resp, tk.retry_count)
        b == buy_symbol(r.outcome, resp)
    IN IF r.outcome = "again"
       THEN [w |-> r.w, tk |-> [tk EXCEPT !.retry_count = r.retry_count,
                                          !.n = @ + 1]]
       ELSE IF b.success
       THEN IF b.price = None THEN Settle(r.w, tk)
            ELSE IF raises_TypeError(b.price, tk.shares) THEN Raise(r.w, tk)
            ELSE Settle(update_balance_from_buy(r.w, tk.s, b.price,
                                                tk.shares), tk)
       ELSE IF single_order(tk) THEN Settle(r.w, tk)
       ELSE IF buy_retry_allowed(tk.retries + 1)
       THEN [w |-> r.w, tk |-> [tk EXCEPT !.shares = reduce_shares(tk.shares),
                                          !.retries = @ + 1,
                                          !.retry_count = 0, !.n = @ + 1]]
       ELSE Settle(r.w, [tk EXCEPT !.shares = reduce_shares(tk.shares),
                                   !.retries = @ + 1])

\* _close_all_positions_dashboard: the close coroutines handed to gather
close_tasks(s) ==
    LET ys == (IF long_symbol[s] # NoSymbol THEN <<long_symbol[s]>> ELSE <<>>)
              \o (IF short_symbol[s] # NoSymbol THEN <<short_symbol[s]>>
                  ELSE <<>>)
    IN [i \in 1..Len(ys) |-> [sym |-> ys[i], retries |-> 0,
                              retry_count |-> 0, pc |-> "close"]]

\* the first segment of a plan: [w, tk, legs]
run_plan(w, tk) ==
    IF tk.op \in {"close", "force_close"}
    THEN IF close_tasks(tk.s) = <<>>
         THEN Return(w, tk) @@ [legs |-> <<>>]
         ELSE [w |-> w, legs |-> close_tasks(tk.s),
               tk |-> [tk EXCEPT !.pc = "gather",
                                 !.n = @ + Len(close_tasks(tk.s))]]
    ELSE plan_start(w, tk) @@ [legs |-> <<>>]

\* process_signal: the branch for a signal type it does not know
unknown_signal_type(w, tk) ==
    [w |-> [w EXCEPT !.is_processing[tk.s] = FALSE],
     tk |-> [tk EXCEPT !.pc = "done", !.result = "error"]]

\* a skip that renews the cooldown and an early return that first reads the
\* cooldown (faulty variants the properties of the cooldown and of the guard
\* must tell from the code's)
skip_renewing_cooldown(w, tk) ==
    process_signal_return(start_cooldown(w, tk.s),
                          [tk EXCEPT !.suppressed = TRUE]) @@ [legs |-> <<>>]
ignore_after_cooldown_check(w, tk) ==
    [w |-> check_cooldown(w, tk.s).w, legs |-> <<>>,
     tk |-> [tk EXCEPT !.pc = "done", !.result = "ignored"]]

\* process_signal: the strategy is already processing, the signal is ignored
ignore_signal(w, tk) ==
    [w |-> w, legs |-> <<>>,
     tk |-> [tk EXCEPT !.pc = "done", !.result = "ignored"]]

\* process_signal: the cooldown is active, the signal is skipped
cooldown_skip(w, tk) ==
    process_signal_return(w, [tk EXCEPT !.suppressed = TRUE])
        @@ [legs |-> <<>>]

\* a guard test that never sees the flag (a faulty variant the properties of
\* the guard must tell from the code's)
guard_never_seen(w, s) == FALSE

\* the guard test at the entry of process_signal
already_processing(w, s) == w.is_processing[s]

\* process_signal / process_multi_symbol_signal up to the first await
process_signal(w, tk) ==
    IF already_processing(w, tk.s)
    THEN ignore_signal(w, tk)
    ELSE LET w1 == [w EXCEPT !.is_processing[tk.s] = TRUE]
             c == is_in_cooldown(w1, tk.s)
         IN IF c.ret
            THEN cooldown_skip(c.w, tk)
            ELSE IF tk.op \notin {"long", "short", "close", "multi"}
            THEN unknown_signal_type(start_cooldown(c.w, tk.s),
                                     [tk EXCEPT !.t0 = now])
                    @@ [legs |-> <<>>]
            ELSE run_plan(start_cooldown(c.w, tk.s), [tk EXCEPT !.t0 = now])

\* a force operation that starts the cooldown as a signal does (a faulty
\* variant the properties of the force operations must tell from the code's)
force_starting_cooldown(w, tk) ==
    run_plan(start_cooldown([w EXCEPT !.is_processing[tk.s] = TRUE], tk.s),
             [tk EXCEPT !.t0 = now])

\* force_long / force_short / force_close up to the first await
force(w, tk) ==
    run_plan([w EXCEPT !.is_processing[tk.s] = TRUE], [tk EXCEPT !.t0 = now])

(* ------------------------------ actions ------------------------------- *)
SetWorld(w) ==
    /\ is_processing' = w.is_processing
    /\ in_cooldown' = w.in_cooldown
    /\ cooldown_end_time' = w.cooldown_end_time
    /\ cash_balance' = w.cash_balance
    /\ api_calls' = w.api_calls

\* task t is between its first await and its return
InFlight(t) == task[t].pc \in {"close", "probe", "sized", "settle", "gather"}

\* the lowest task not yet used
FreeTask ==
    CHOOSE t \in Tasks :
        /\ task[t].pc = "unused"
        /\ \A u \in Tasks : task[u].pc = "unused" => t <= u

\* the broker answered one more request for y
Served(y) ==
    IF broker[y].kind \in {"recover", "first", "garbled"}
       /\ served[y] < broker[y].limit
    THEN [served EXCEPT ![y] = @ + 1] ELSE served

\* the state after construction, the broker behaving as one of `brokers`
InitWith(brokers) ==
    /\ now = 0
    /\ is_processing = [s \in Strategies |-> FALSE]
    /\ in_cooldown = [s \in Strategies |-> FALSE]
    /\ cooldown_end_time = [s \in Strategies |-> None]
    /\ cash_balance = InitialCash
    /\ api_calls = [s \in Strategies |-> <<>>]
    /\ broker \in brokers
    /\ served = [y \in Symbols |-> 0]
    /\ task = [t \in Tasks |-> IdleTask]
    /\ legs = [t \in Tasks |-> <<>>]
    /\ max_retries = MAX_RETRIES
    /\ ret = [op |-> "none", s |-> "a", value |-> FALSE]

\* the clock advances by d hours.  The requests and pauses of one execution
\* are bounded by API_TIMEOUT and the retry limits to well under the
\* cooldown period, so no execution in flight sees that much time pass.
Tick(d) ==
    /\ now + d <= MaxTime
    /\ \A t \in Tasks :
          InFlight(t) => now + d - task[t].t0 < COOLDOWN_PERIOD_HOURS
    /\ now' = now + d
    /\ UNCHANGED <<max_retries, is_processing, in_cooldown, cooldown_end_time,
                   cash_balance, api_calls, broker, served, task, legs, ret>>

\* _process_user_webhook: the signal is handed to a background task
WebhookRequest(s, sig) ==
    /\ \E t \in Tasks : task[t].pc = "unused"
    /\ task' = [task EXCEPT ![FreeTask] =
                   [IdleTask EXCEPT !.op = sig, !.s = s, !.pc = "queued"]]
    /\ UNCHANGED <<max_retries, now, is_processing, in_cooldown, cooldown_end_time,
                   cash_balance, api_calls, broker, served, legs, ret>>

\* a caller hands process_multi_symbol_signal to a task
MultiRequest(s, buy, sells) ==
    /\ \E t \in Tasks : task[t].pc = "unused"
    /\ task' = [task EXCEPT ![FreeTask] =
                   [IdleTask EXCEPT !.op = "multi", !.s = s, !.pc = "queued",
                                    !.buy = buy, !.sell_symbols = sells,
                                    !.sells = sells]]
    /\ UNCHANGED <<max_retries, now, is_processing, in_cooldown, cooldown_end_time,
                   cash_balance, api_calls, broker, served, legs, ret>>

\* _process_broadcast_webhook / _process_broadcast_signals_parallel: one
\* task per strategy of the name runs process_signal; the broadcast gathers
\* them with return_exceptions = True
BroadcastRequest(sig) ==
    /\ \E t, u \in Tasks : t # u /\ task[t].pc = "unused" /\ task[u].pc = "unused"
    /\ LET second == CHOOSE u \in Tasks :
                         /\ u # FreeTask /\ task[u].pc = "unused"
                         /\ \A v \in Tasks \ {FreeTask} :
                               task[v].pc = "unused" => u <= v
       IN task' = [task EXCEPT
                      ![FreeTask] = [IdleTask EXCEPT !.op = sig, !.s = "a",
                                                     !.pc = "queued"],
                      ![second] = [IdleTask EXCEPT !.op = sig, !.s = "b",
                                                   !.pc = "queued"]]
    /\ UNCHANGED <<max_retries, now, is_processing, in_cooldown, cooldown_end_time,
                   cash_balance, api_calls, broker, served, legs, ret>>

\* force_user_strategy_long / _short / _close: the handler tests the guard
\* and hands the force coroutine to a background task
ForceRequest(s, f) ==
    /\ \E t \in Tasks : task[t].pc = "unused"
    /\ ~is_processing[s]
    /\ task' = [task EXCEPT ![FreeTask] =
                   [IdleTask EXCEPT !.op = f, !.s = s, !.pc = "queued"]]
    /\ UNCHANGED <<max_retries, now, is_processing, in_cooldown, cooldown_end_time,
                   cash_balance, api_calls, broker, served, legs, ret>>

\* the background task of a signal starts: process_signal to its first await
StartExecute(t) ==
    /\ task[t].pc = "queued"
    /\ task[t].op \notin ForceOps
    /\ LET r == process_signal(World, task[t])
       IN /\ SetWorld(r.w)
          /\ task' = [task EXCEPT ![t] = r.tk]
          /\ legs' = [legs EXCEPT ![t] = r.legs]
    /\ UNCHANGED <<max_retries, now, broker, served, ret>>

\* the background task of a force operation starts
StartForce(t) ==
    /\ task[t].pc = "queued"
    /\ task[t].op \in ForceOps
    /\ LET r == force(World, task[t])
       IN /\ SetWorld(r.w)
          /\ task' = [task EXCEPT ![t] = r.tk]
          /\ legs' = [legs EXCEPT ![t] = r.legs]
    /\ UNCHANGED <<max_retries, now, broker, served, ret>>

\* the request task t awaits is answered; t runs to its next await
BrokerAnswer(t) ==
    /\ task[t].pc \in {"close", "probe", "sized"}
    /\ LET tk == task[t]
           resp == Respond(broker[tk.sym], served[tk.sym], tk.sym,
                           IF tk.pc = "close" THEN "close" ELSE "buy",
                           IF tk.pc = "sized" THEN tk.shares ELSE 1)
           r == CASE tk.pc = "close" -> close_answer(World, tk, resp)
                  [] tk.pc = "probe" -> probe_answer(World, tk, resp)
                  [] OTHER -> sized_answer(World, tk, resp)
       IN /\ SetWorld(r.w)
          /\ task' = [task EXCEPT ![t] = r.tk]
          /\ served' = Served(tk.sym)
    /\ UNCHANGED <<max_retries, now, broker, legs, ret>>

\* the request a gathered close coroutine awaits is answered
LegAnswer(t, i) ==
    /\ i \in DOMAIN legs[t]
    /\ legs[t][i].pc = "close"
    /\ LET leg == legs[t][i]
           resp == Respond(broker[leg.sym], served[leg.sym], leg.sym,
                           "close", 1)
           r == close_symbol_position(World, task[t].s, leg, resp)
       IN /\ SetWorld(r.w)
          /\ legs' = [legs EXCEPT ![t][i] = r.leg]
          /\ task' = [task EXCEPT ![t].n =
                         IF r.leg.pc = "close" THEN @ + 1 ELSE @]
          /\ served' = Served(leg.sym)
    /\ UNCHANGED <<max_retries, now, broker, ret>>

\* asyncio.gather wakes the task: with the first exception of a close
\* coroutine (the others keep running), or when all of them returned
GatherReturn(t) ==
    /\ task[t].pc = "gather"
    /\ LET raised == \E i \in DOMAIN legs[t] : legs[t][i].pc = "raised"
           r == IF raised THEN Raise(World, task[t])
                ELSE Return(World, task[t])
       IN /\ raised \/ \A i \in DOMAIN legs[t] : legs[t][i].pc = "returned"
          /\ SetWorld(r.w)
          /\ task' = [task EXCEPT ![t] = r.tk]
    /\ UNCHANGED <<max_retries, now, broker, served, legs, ret>>

\* the pause after the buy ends and the plan returns
SleepReturn(t) ==
    /\ task[t].pc = "settle"
    /\ LET r == Return(World, task[t])
       IN /\ SetWorld(r.w)
          /\ task' = [task EXCEPT ![t] = r.tk]
    /\ UNCHANGED <<max_retries, now, broker, served, legs, ret>>

\* update_user_strategy_cash: the manual override, then to_dict reads the
\* cooldown; HTTP 400 when the override failed
UpdateCashRequest(s, amount) ==
    /\ LET r == update_balance_manual(World, s, amount)
       IN SetWorld(IF r.ret THEN get_cooldown_info(r.w, s).w ELSE r.w)
    /\ UNCHANGED <<max_retries, now, broker, served, task, legs, ret>>

\* CashManager.update_balance_manual(amount, strategy) is called: applyManual
ApplyManual(s, amount) ==
    /\ SetWorld(update_balance_manual(World, s, amount).w)
    /\ ret' = [op |-> "update_balance_manual", s |-> s,
               value |-> update_balance_manual(World, s, amount).ret]
    /\ UNCHANGED <<max_retries, now, broker, served, task, legs>>

\* start_user_strategy_cooldown: start, then to_dict reads the cooldown
StartCooldownRequest(s) ==
    /\ SetWorld(get_cooldown_info(start_cooldown(World, s), s).w)
    /\ UNCHANGED <<max_retries, now, broker, served, task, legs, ret>>

\* stop_user_strategy_cooldown: stop, then to_dict reads the cooldown
StopCooldownRequest(s) ==
    /\ SetWorld(get_cooldown_info(Strategy_stop_cooldown(World, s), s).w)
    /\ UNCHANGED <<max_retries, now, broker, served, task, legs, ret>>

\* a dashboard reads strategy.to_dict(), which reads get_cooldown_info
Dashboard(s) ==
    /\ SetWorld(get_cooldown_info(World, s).w)
    /\ UNCHANGED <<max_retries, now, broker, served, task, legs, ret>>

\* Strategy.start_cooldown(duration_hours) is called
StartCooldown(s, duration_hours) ==
    /\ SetWorld(Strategy_start_cooldown(World, s, duration_hours))
    /\ ret' = [op |-> "start_cooldown", s |-> s, value |-> TRUE]
    /\ UNCHANGED <<max_retries, now, broker, served, task, legs>>

\* Strategy.stop_cooldown() is called
StopCooldown(s) ==
    /\ SetWorld(Strategy_stop_cooldown(World, s))
    /\ ret' = [op |-> "stop_cooldown", s |-> s, value |-> FALSE]
    /\ UNCHANGED <<max_retries, now, broker, served, task, legs>>

\* CooldownManager.is_in_cooldown(strategy) is called: isActive
IsActiveQuery(s) ==
    /\ SetWorld(is_in_cooldown(World, s).w)
    /\ ret' = [op |-> "is_in_cooldown", s |-> s,
               value |-> is_in_cooldown(World, s).ret]
    /\ UNCHANGED <<max_retries, now, broker, served, task, legs>>

\* CooldownManager.get_cooldown_info(strategy) is called: info
InfoQuery(s) ==
    /\ SetWorld(get_cooldown_info(World, s).w)
    /\ ret' = [op |-> "get_cooldown_info", s |-> s,
               value |-> get_cooldown_info(World, s).ret]
    /\ UNCHANGED <<max_retries, now, broker, served, task, legs>>

\* CashManager.get_max_shares(price, strategy) is called: maxShares
MaxSharesQuery(s, price) ==
    /\ ret' = [op |-> "get_max_shares", s |-> s, price |-> price,
               value |-> get_max_shares(World, s, price)]
    /\ UNCHANGED <<max_retries, now, is_processing, in_cooldown, cooldown_end_time,
                   cash_balance, api_calls, broker, served, task, legs>>

(* --------------------------- specifications --------------------------- *)
\* the broker's behaviour for AAA and for BBB
Cfg(x, z) == [y \in Symbols |-> IF y = "AAA" THEN x ELSE z]

\* The service under signals, force operations and the operator's cooldown
\* requests for one strategy.  The clock is read once per cooldown period.
MainClock == {6, COOLDOWN_PERIOD_HOURS + 1}
MainSignals == {"long", "close", "bogus"}
MainForce == {"force_long", "force_close"}
MainBrokers ==
    {Cfg(Script("fill", 0), Script("fill", 0)),
     Cfg(Script("accept", 0), Script("accept", 0)),
     Cfg(Script("fill", 0), Script("badprice", 0)),
     Cfg(Script("badprice", 0), Script("fill", 0))}

Init == InitWith(MainBrokers)

Next ==
    \/ \E d \in MainClock : Tick(d)
    \/ \E sig \in MainSignals : WebhookRequest("a", sig)
    \/ \E f \in MainForce : ForceRequest("a", f)
    \/ \E t \in Tasks : StartExecute(t)
    \/ \E t \in Tasks : StartForce(t)
    \/ \E t \in Tasks : BrokerAnswer(t)
    \/ \E t \in Tasks, i \in 1..2 : LegAnswer(t, i)
    \/ \E t \in Tasks : GatherReturn(t)
    \/ \E t \in Tasks : SleepReturn(t)
    \/ StartCooldownRequest("a")
    \/ StopCooldownRequest("a")
    \/ Dashboard("a")

Spec == Init /\ [][Next]_vars

\* The service under execute calls only (no force operation), the broker
\* failing in every way, retries exhausted included.
ExecSignals == {"long", "short", "close", "bogus"}
ExecPlans ==
    {[buy |-> "AAA", sells |-> <<"BBB">>],
     [buy |-> NoSymbol, sells |-> <<"BBB", "AAA">>]}
ExecBrokers ==
    {Cfg(Script("fill", 0), Script("fill", 0)),
     Cfg(Script("limit", 2), Script("reject", 0)),
     Cfg(Script("badprice", 0), Script("recover", 2)),
     Cfg(Script("timeout", 0), Script("accept", 0)),
     Cfg(Script("fill", 0), Script("odd", 0))}

InitExecute == InitWith(ExecBrokers)

NextExecute ==
    \/ \E d \in MainClock : Tick(d)
    \/ \E sig \in ExecSignals : WebhookRequest("a", sig)
    \/ WebhookRequest("b", "short")
    \/ \E plan \in ExecPlans : MultiRequest("a", plan.buy, plan.sells)
    \/ \E t \in Tasks : StartExecute(t)
    \/ \E t \in Tasks : BrokerAnswer(t)
    \/ \E t \in Tasks, i \in 1..2 : LegAnswer(t, i)
    \/ \E t \in Tasks : GatherReturn(t)
    \/ \E t \in Tasks : SleepReturn(t)
    \/ StartCooldownRequest("a")
    \/ StopCooldownRequest("a")
    \/ Dashboard("a")

SpecExecute == InitExecute /\ [][NextExecute]_vars

\* Execute calls within one reading of the clock, every coroutine that can
\* take a step eventually taking one: the event loop runs every ready task,
\* and every broker call answers or times out after API_TIMEOUT.
TaskStep ==
    \E t \in Tasks :
        \/ StartExecute(t)
        \/ BrokerAnswer(t)
        \/ \E i \in 1..2 : LegAnswer(t, i)
        \/ GatherReturn(t)
        \/ SleepReturn(t)

NextFair ==
    \/ \E sig \in ExecSignals : WebhookRequest("a", sig)
    \/ \E plan \in ExecPlans : MultiRequest("a", plan.buy, plan.sells)
    \/ TaskStep

FairExecute == InitExecute /\ [][NextFair]_vars /\ WF_vars(TaskStep)

\* Plans run once per strategy, within one reading of the clock and with no
\* operator request: the call history of a strategy is then the history of
\* the one execution that passed its guard and its cooldown.
PlanSignals == {"long", "short", "close"}
PlanPlans ==
    {[buy |-> "AAA", sells |-> <<"BBB", "AAA">>],
     [buy |-> NoSymbol, sells |-> <<"AAA", "BBB", "AAA">>]}
PlanBrokers ==
    {Cfg(Script("fill", 0), Script("fill", 0)),
     Cfg(Script("fill", 0), Script("reject", 0)),
     Cfg(Script("accept", 0), Script("timeout", 0)),
     Cfg(Script("accept", 0), Script("fill", 0)),
     Cfg(Script("reject", 0), Script("fill", 0)),
     Cfg(Script("fill", 0), Script("recover", 2)),
     Cfg(Script("fill", 0), Script("odd", 0))}

InitPlan == InitWith(PlanBrokers)

NextPlan ==
    \/ \E s \in Strategies, sig \in PlanSignals : WebhookRequest(s, sig)
    \/ \E plan \in PlanPlans : MultiRequest("a", plan.buy, plan.sells)
    \/ TaskStep

SpecPlan == InitPlan /\ [][NextPlan]_vars

\* The ledger under signals for both strategies and the operator's manual
\* overrides of the cash balance, within one reading of the clock.
LedgerSignals == {"long", "close"}
LedgerAmounts == {50}
LedgerBrokers ==
    {Cfg(Script("fill", 0), Script("fill", 0)),
     Cfg(Script("accept", 0), Script("reject", 0))}

InitLedger == InitWith(LedgerBrokers)

NextLedger ==
    \/ \E sig \in LedgerSignals : WebhookRequest("a", sig)
    \/ WebhookRequest("b", "short")
    \/ TaskStep
    \/ \E s \in Strategies, amount \in LedgerAmounts :
          UpdateCashRequest(s, amount)
    \/ StopCooldownRequest("a")

SpecLedger == InitLedger /\ [][NextLedger]_vars

\* The buy algorithms of one strategy, within one reading of the clock: the
\* strategy starts with one of several cash balances, and the broker fills
\* the buys of its long symbol below a threshold only, or the first one
\* only, or fails them in one way or another.
BuyCash == {3, 16, 40, 250, 1000, 20010}
BuySignals == {"long", "close", "bogus"}
BuyPlans == {[buy |-> "AAA", sells |-> <<"BBB">>]}
BuyScripts ==
    {Script("fill", 0), Script("first", 1), Script("reject", 0),
     Script("timeout", 0), Script("accept", 0), Script("odd", 0),
     Script("badprice", 0)}
        \cup {Script("limit", k) : k \in {2, 5, 6, 80, 81, 85, 100}}
BuyBrokers ==
    {Cfg(x, z) : x \in BuyScripts, z \in {Script("accept", 0),
                                          Script("fill", 0)}}

InitBuy ==
    /\ now = 0
    /\ is_processing = [s \in Strategies |-> FALSE]
    /\ in_cooldown = [s \in Strategies |-> FALSE]
    /\ cooldown_end_time = [s \in Strategies |-> None]
    /\ cash_balance \in {[InitialCash EXCEPT !["a"] = c] : c \in BuyCash}
    /\ api_calls = [s \in Strategies |-> <<>>]
    /\ broker \in BuyBrokers
    /\ served = [y \in Symbols |-> 0]
    /\ task = [t \in Tasks |-> IdleTask]
    /\ legs = [t \in Tasks |-> <<>>]
    /\ max_retries = MAX_RETRIES
    /\ ret = [op |-> "none", s |-> "a", value |-> FALSE]

NextBuy ==
    \/ \E sig \in BuySignals : WebhookRequest("a", sig)
    \/ \E plan \in BuyPlans : MultiRequest("a", plan.buy, plan.sells)
    \/ TaskStep

SpecBuy == InitBuy /\ [][NextBuy]_vars

\* The share count of a buy, asked for every balance around the minimum
\* cash balance (a balance below zero included, which a buy can leave) and
\* every price of a range.
ShareCash == {0 - 7, 0, 4, 5, 6, 9, 10, 11, 25, 99, 100}
SharePrices == 1..12

InitShares ==
    /\ now = 0
    /\ is_processing = [s \in Strategies |-> FALSE]
    /\ in_cooldown = [s \in Strategies |-> FALSE]
    /\ cooldown_end_time = [s \in Strategies |-> None]
    /\ cash_balance \in [Strategies -> ShareCash]
    /\ api_calls = [s \in Strategies |-> <<>>]
    /\ broker = Cfg(Script("fill", 0), Script("fill", 0))
    /\ served = [y \in Symbols |-> 0]
    /\ task = [t \in Tasks |-> IdleTask]
    /\ legs = [t \in Tasks |-> <<>>]
    /\ max_retries = MAX_RETRIES
    /\ ret = [op |-> "none", s |-> "a", value |-> FALSE]

NextShares == \E s \in Strategies, price \in SharePrices : MaxSharesQuery(s, price)

SpecShares == InitShares /\ [][NextShares]_vars

\* A close-only call of process_multi_symbol_signal with a list of MaxCalls
\* symbols to sell, more than the call history holds; the broker answers
\* every request, so each request appends one record.
HistorySells == [i \in 1..MaxCalls |-> IF i % 3 = 0 THEN "BBB" ELSE "AAA"]
HistoryBrokers ==
    {Cfg(Script("fill", 0), Script("fill", 0)),
     Cfg(Script("fill", 0), Script("accept", 0)),
     Cfg(Script("accept", 0), Script("fill", 0)),
     Cfg(Script("fill", 0), Script("reject", 0))}

InitHistory == InitWith(HistoryBrokers)

NextHistory ==
    \/ MultiRequest("a", NoSymbol, HistorySells)
    \/ WebhookRequest("b", "short")
    \/ \E t \in Tasks : StartExecute(t)
    \/ \E t \in Tasks : BrokerAnswer(t)

SpecHistory == InitHistory /\ [][NextHistory]_vars

\* A signal broadcast to the strategies of one name, every task the
\* broadcast created eventually taking the steps it can take.
BroadcastSignals == {"long", "short", "close"}
BroadcastBrokers ==
    {Cfg(Script("fill", 0), Script("fill", 0)),
     Cfg(Script("fill", 0), Script("badprice", 0)),
     Cfg(Script("badprice", 0), Script("fill", 0)),
     Cfg(Script("reject", 0), Script("accept", 0)),
     Cfg(Script("timeout", 0), Script("fill", 0))}

InitBroadcast == InitWith(BroadcastBrokers)

NextBroadcast ==
    \/ \E sig \in BroadcastSignals : BroadcastRequest(sig)
    \/ TaskStep

FairBroadcast == InitBroadcast /\ [][NextBroadcast]_vars /\ WF_vars(TaskStep)

\* The manual override of the cash balance, called with amounts that are
\* numbers, a text that is no number, NaN and infinity, between the
\* operator's cooldown requests.
ManualAmounts == {0, 50, 1000, NotANumber, NaN, Infinity}

InitManual == InitWith({Cfg(Script("fill", 0), Script("fill", 0))})

NextManual ==
    \/ \E s \in Strategies, amount \in ManualAmounts : ApplyManual(s, amount)
    \/ \E s \in Strategies : StartCooldownRequest(s)
    \/ \E s \in Strategies : StopCooldownRequest(s)

SpecManual == InitManual /\ [][NextManual]_vars

\* The broker client under every configured retry count of a range: one
\* strategy's signals, within one reading of the clock, the broker failing
\* the requests for one symbol for good, or for the first few attempts, or
\* the buys of two shares or more, or all requests but the first.
ClientRetries == {0, 1, 2}
ClientSignals == {"long", "close"}
ClientScripts ==
    {Script("fill", 0), Script("accept", 0), Script("reject", 0),
     Script("odd", 0), Script("timeout", 0), Script("badprice", 0),
     Script("limit", 2), Script("first", 1)}
        \cup {Script("recover", k) : k \in 1..3}
        \cup {Script("garbled", k) : k \in 1..3}
ClientBrokers ==
    {Cfg(x, Script("fill", 0)) : x \in ClientScripts}
        \cup {Cfg(Script("fill", 0), z) : z \in ClientScripts}

InitClient ==
    /\ now = 0
    /\ is_processing = [s \in Strategies |-> FALSE]
    /\ in_cooldown = [s \in Strategies |-> FALSE]
    /\ cooldown_end_time = [s \in Strategies |-> None]
    /\ cash_balance = [InitialCash EXCEPT !["a"] = 40]
    /\ api_calls = [s \in Strategies |-> <<>>]
    /\ broker \in ClientBrokers
    /\ served = [y \in Symbols |-> 0]
    /\ task = [t \in Tasks |-> IdleTask]
    /\ legs = [t \in Tasks |-> <<>>]
    /\ max_retries \in ClientRetries
    /\ ret = [op |-> "none", s |-> "a", value |-> FALSE]

NextClient ==
    \/ \E sig \in ClientSignals : WebhookRequest("a", sig)
    \/ TaskStep

SpecClient == InitClient /\ [][NextClient]_vars

\* The service under signals, the operator's cooldown start and the
\* dashboard's reads, with no stop of the cooldown and no force operation;
\* the clock is read at the cooldown's end time and after it.
SeparationSignals == {"long", "close", "bogus"}
SeparationBrokers ==
    {Cfg(Script("fill", 0), Script("fill", 0)),
     Cfg(Script("accept", 0), Script("reject", 0)),
     Cfg(Script("timeout", 0), Script("fill", 0))}

InitSeparation == InitWith(SeparationBrokers)

NextSeparation ==
    \/ \E d \in MainClock : Tick(d)
    \/ \E sig \in SeparationSignals : WebhookRequest("a", sig)
    \/ WebhookRequest("b", "short")
    \/ TaskStep
    \/ StartCooldownRequest("a")
    \/ \E s \in Strategies : Dashboard(s)

SpecSeparation == InitSeparation /\ [][NextSeparation]_vars

\* The cooldown of the strategies under start, stop and the two queries,
\* the clock read every hour.
HourClock == {1}
CooldownDurations == {1, COOLDOWN_PERIOD_HOURS}

InitCooldown == InitWith({Cfg(Script("fill", 0), Script("fill", 0))})

NextCooldown ==
    \/ \E d \in HourClock : Tick(d)
    \/ \E s \in Strategies, d \in CooldownDurations : StartCooldown(s, d)
    \/ \E s \in Strategies : StopCooldown(s)
    \/ \E s \in Strategies : IsActiveQuery(s)
    \/ \E s \in Strategies : InfoQuery(s)

SpecCooldown == InitCooldown /\ [][NextCooldown]_vars

(* ------------------------------ properties ---------------------------- *)
\* two different tasks working on the same strategy
SameStrategy(t, u) == t # u /\ task[t].s = task[u].s

\* a gathered close coroutine of task t still awaits a broker answer
LegRunning(t) == \E i \in DOMAIN legs[t] : legs[t][i].pc = "close"

\* sequence p is an initial part of sequence q
IsPrefix(p, q) == Len(p) <= Len(q) /\ SubSeq(q, 1, Len(p)) = p

\* task t is an execute call (process_signal / process_multi_symbol_signal)
IsExecute(t) == task[t].op \in {"long", "short", "close", "bogus", "multi"}

\* C1: mutual exclusion of execute calls.  Under execute calls only
\* (process_signal / process_multi_symbol_signal), no two calls on one
\* strategy are ever in flight together, and a call that starts while another
\* is in flight returns 'ignored'.
C1_MutualExclusion ==
    /\ [](\A t, u \in Tasks :
            SameStrategy(t, u) => ~(InFlight(t) /\ InFlight(u)))
    /\ [][\A t \in Tasks :
            (StartExecute(t) /\ \E u \in Tasks : SameStrategy(t, u) /\ InFlight(u))
                => task'[t].result = "ignored"]_vars

\* C1 happens: one call is in flight and another one was ignored
C1_Witness ==
    \E t, u \in Tasks :
        /\ SameStrategy(t, u)
        /\ InFlight(t)
        /\ task[u].pc = "done" /\ task[u].result = "ignored"

\* C2: a force operation never starts its plan (never issues a broker call)
\* on a strategy while another signal is in flight on that strategy.
C2_ForceRespectsGuard ==
    [][\A t \in Tasks :
          (StartForce(t) /\ task'[t].n > 0)
              => ~\E u \in Tasks : SameStrategy(t, u) /\ InFlight(u)]_vars

\* C3: while an execution has broker calls or ledger updates to perform
\* (the task is in flight, or a close coroutine it gathered still runs), the
\* processing guard of its strategy is set.
C3_GuardHeld ==
    \A t \in Tasks :
        (InFlight(t) \/ LegRunning(t)) => is_processing[task[t].s]

\* the answer task t awaits makes the ledger update of its plan raise
AnswerRaises(t) ==
    /\ task[t].pc \in {"close", "probe", "sized"}
    /\ LET resp == Respond(broker[task[t].sym], served[task[t].sym],
                           task[t].sym,
                           IF task[t].pc = "close" THEN "close" ELSE "buy",
                           IF task[t].pc = "sized" THEN task[t].shares ELSE 1)
       IN resp.status = "filled" /\ raises_TypeError(resp.price, resp.quantity)

\* a close coroutine gathered by task t has raised
LegRaised(t) == \E i \in DOMAIN legs[t] : legs[t][i].pc = "raised"

\* C4: when an exception leaves the plan of an execute call that holds the
\* guard (raised by a ledger update after a sequential request, or handed on
\* by gather), the call returns status 'error'; and whenever an execute call
\* returns 'error', is_processing is false when it returns and every
\* call-history entry appended before is still there, in order.
C4_GuardAlwaysReleased ==
    /\ [][\A t \in Tasks :
            (IsExecute(t) /\ ((BrokerAnswer(t) /\ AnswerRaises(t))
                                  \/ (GatherReturn(t) /\ LegRaised(t))))
                => task'[t].pc = "done" /\ task'[t].result = "error"]_vars
    /\ [][\A t \in Tasks :
            (IsExecute(t) /\ task[t].pc # "done" /\ task'[t].pc = "done"
                  /\ task'[t].result = "error")
                => /\ ~is_processing'[task[t].s]
                   /\ IsPrefix(api_calls[task[t].s],
                               api_calls'[task[t].s])]_vars

\* C4 happens: an execute call issued broker calls, then an exception aborted
\* its plan, it returned 'error', the guard is released and the history kept
C4_Witness ==
    \E t \in Tasks :
        /\ IsExecute(t) /\ task[t].pc = "done" /\ task[t].result = "error"
        /\ task[t].n > 0
        /\ ~is_processing[task[t].s]
        /\ api_calls[task[t].s] # <<>>

\* C5: every execute call that acquires the guard eventually returns, for
\* every behaviour of the broker, provided every broker call is answered or
\* times out; the retry counters stay within their limits, and once no
\* call is in flight on a strategy its is_processing is false.
C5_Terminates ==
    /\ [](\A t \in Tasks :
            /\ task[t].retry_count <= MAX_RETRIES + 1
            /\ task[t].retries <= Max(MAX_BUY_RETRIES, MAX_CLOSE_RETRIES)
            /\ \A i \in DOMAIN legs[t] :
                  /\ legs[t][i].retries <= MAX_CLOSE_RETRIES
                  /\ legs[t][i].retry_count <= MAX_RETRIES + 1)
    /\ [](\A s \in Strategies :
            is_processing[s] => \E t \in Tasks : InFlight(t) /\ task[t].s = s)
    /\ \A t \in Tasks : InFlight(t) ~> (task[t].pc = "done")

\* C5 happens: a call whose close requests all failed and whose buy was
\* refused until the retries ran out has returned, the guard released
C5_Witness ==
    \E t \in Tasks :
        /\ task[t].pc = "done" /\ task[t].result = "success"
        /\ task[t].n >= MAX_CLOSE_RETRIES + 1 + MAX_BUY_RETRIES
        /\ ~is_processing[task[t].s]

\* the cooldown of strategy s is active at the present time
CooldownActive(s) ==
    in_cooldown[s]
        /\ (cooldown_end_time[s] = None \/ now <= cooldown_end_time[s])

\* C6: an execute call that passes the guard check while the cooldown is
\* active issues no broker call, releases the guard and returns 'success',
\* whatever the signal type.
C6_CooldownSuppresses ==
    [][\A t \in Tasks :
          (StartExecute(t) /\ ~is_processing[task[t].s]
                /\ CooldownActive(task[t].s))
              => /\ task'[t].pc = "done" /\ task'[t].result = "success"
                 /\ task'[t].n = 0 /\ legs'[t] = <<>>
                 /\ served' = served
                 /\ ~is_processing'[task[t].s]]_vars

\* C6 happens: a signal of an unknown type and one of a known type were
\* suppressed by the cooldown
C6_Witness ==
    \E t, u \in Tasks :
        /\ task[t].op = "bogus" /\ task[u].op # "bogus"
        /\ task[t].suppressed /\ task[u].suppressed
        /\ task[t].result = "success" /\ task[u].result = "success"

\* C7: an execute call that finds the cooldown active leaves in_cooldown,
\* cooldown_end_time, cash_balance and the call history as they were, and
\* the signal is consumed: its task is done and never acts again.
C7_CooldownSignalFrame ==
    /\ [][\A t \in Tasks :
            (StartExecute(t) /\ ~is_processing[task[t].s]
                  /\ CooldownActive(task[t].s))
                => /\ task'[t].pc = "done"
                   /\ UNCHANGED <<in_cooldown, cooldown_end_time,
                                  cash_balance, api_calls>>]_vars
    /\ [][\A t \in Tasks :
            task[t].suppressed
                => task'[t] = task[t] /\ task[t].n = 0 /\ legs'[t] = <<>>]_vars

\* C7 happens: a signal was suppressed and the cooldown has since expired
C7_Witness ==
    \E t \in Tasks :
        /\ task[t].suppressed /\ task[t].pc = "done" /\ task[t].n = 0
        /\ in_cooldown[task[t].s]
        /\ now > cooldown_end_time[task[t].s]

\* C8: an execute call that finds the strategy processing returns 'ignored'
\* and changes nothing: the strategy fields, the other tasks and their close
\* coroutines are as before.
C8_IgnoredChangesNothing ==
    [][\A t \in Tasks :
          (StartExecute(t) /\ is_processing[task[t].s])
              => /\ task'[t].pc = "done" /\ task'[t].result = "ignored"
                 /\ task'[t].n = 0
                 /\ \A u \in Tasks \ {t} : task'[u] = task[u]
                 /\ UNCHANGED <<is_processing, in_cooldown, cooldown_end_time,
                                cash_balance, api_calls, legs, served>>]_vars

\* C8 happens: a signal was ignored while another was in flight and the
\* cooldown had run out without being cleared
C8_Witness ==
    \E t, u \in Tasks :
        /\ task[t].pc = "done" /\ task[t].result = "ignored"
        /\ SameStrategy(t, u) /\ InFlight(u)
        /\ in_cooldown[task[t].s]
        /\ now > cooldown_end_time[task[t].s]

\* the cooldown of task t's strategy is the one t started: set, and ending
\* the configured duration after t started it
CooldownOf(t) ==
    /\ in_cooldown[task[t].s]
    /\ cooldown_end_time[task[t].s] = task[t].t0 + COOLDOWN_PERIOD_HOURS

\* the operator starts or stops the cooldown of strategy s by hand
ManualCooldownStep(s) == StartCooldownRequest(s) \/ StopCooldownRequest(s)

\* an execute call that passes the guard and finds the cooldown inactive
\* starts the cooldown, before the broker answered any request of its plan
C9_StartedBeforeCalls ==
    [][\A t \in Tasks :
          (StartExecute(t) /\ ~is_processing[task[t].s]
                /\ ~CooldownActive(task[t].s))
              => /\ task'[t].t0 = now
                 /\ CooldownOf(t)'
                 /\ served' = served /\ api_calls' = api_calls]_vars

C10_SelfExpiry ==
    /\ [][\A s \in Strategies, d \in CooldownDurations :
            StartCooldown(s, d)
                => in_cooldown'[s] /\ cooldown_end_time'[s] = now + d]_vars
    /\ [][\A s \in Strategies :
            IsActiveQuery(s)
                => IF in_cooldown[s] /\ now <= cooldown_end_time[s]
                   THEN /\ ret'.value = TRUE
                        /\ UNCHANGED <<in_cooldown, cooldown_end_time>>
                   ELSE IF in_cooldown[s]
                   THEN /\ ret'.value = FALSE
                        /\ ~in_cooldown'[s]
                        /\ cooldown_end_time'[s] = None
                   ELSE /\ ret'.value = FALSE
                        /\ UNCHANGED <<in_cooldown, cooldown_end_time>>]_vars
    /\ [][\A d \in HourClock :
            Tick(d) => UNCHANGED <<in_cooldown, cooldown_end_time>>]_vars

\* C10 happens: isActive was queried at the very end time of a cooldown that
\* was started earlier, and returned true
C10_Witness ==
    \E s \in Strategies :
        /\ ret = [op |-> "is_in_cooldown", s |-> s, value |-> TRUE]
        /\ in_cooldown[s]
        /\ now = cooldown_end_time[s]

\* C11: in every reachable state, under signals, force operations, manual
\* starts and stops and the cooldown queries, a strategy's cooldown_end_time
\* is present if and only if its in_cooldown is true.
C11_EndTimeIffInCooldown ==
    \A s \in Strategies : in_cooldown[s] <=> cooldown_end_time[s] # None

\* C11 happens: an execution started the cooldown of its strategy, and the
\* cooldown has since been cleared, both fields together
C11_Witness ==
    \E t \in Tasks :
        /\ task[t].t0 # None
        /\ ~in_cooldown[task[t].s]
        /\ cooldown_end_time[task[t].s] = None

\* C12: starting from non-negative balances and with no manual override,
\* no sequence of signals and broker answers drives a strategy's
\* cash_balance below zero.
C12_CashNeverNegative ==
    \A s \in Strategies : cash_balance[s] >= 0

\* the answer task t awaits is a fill with a numeric price, which the
\* ledger applies
AnswerFills(t) ==
    /\ task[t].pc \in {"close", "probe", "sized"}
    /\ LET resp == Respond(broker[task[t].sym], served[task[t].sym],
                           task[t].sym,
                           IF task[t].pc = "close" THEN "close" ELSE "buy",
                           IF task[t].pc = "sized" THEN task[t].shares ELSE 1)
       IN resp.status = "filled"
              /\ ~raises_TypeError(resp.price, resp.quantity)

\* the answer the i-th close coroutine gathered by task t awaits is a fill
\* with a numeric price
LegFills(t, i) ==
    /\ i \in DOMAIN legs[t]
    /\ legs[t][i].pc = "close"
    /\ LET resp == Respond(broker[legs[t][i].sym], served[legs[t][i].sym],
                           legs[t][i].sym, "close", 1)
       IN resp.status = "filled"
              /\ ~raises_TypeError(resp.price, resp.quantity)

\* C13: a strategy's cash_balance changes only in the step that applies a
\* broker fill of an execution on that strategy to the ledger, or in a manual
\* override of that strategy's balance; no other step changes it.
C13_CashChangesOnlyByLedger ==
    [][\A s \in Strategies :
          cash_balance'[s] # cash_balance[s]
              => \/ \E t \in Tasks :
                       task[t].s = s /\ BrokerAnswer(t) /\ AnswerFills(t)
                 \/ \E t \in Tasks, i \in 1..2 :
                       task[t].s = s /\ LegAnswer(t, i) /\ LegFills(t, i)
                 \/ \E amount \in LedgerAmounts :
                       UpdateCashRequest(s, amount)]_vars

\* the fields of strategy s
FieldsOf(s) ==
    <<cash_balance[s], in_cooldown[s], cooldown_end_time[s], is_processing[s],
      api_calls[s]>>

\* C14: a step of an execution on one strategy leaves the cash_balance, the
\* cooldown fields, the processing flag and the call history of every other
\* strategy unchanged, a strategy of the same name owned by another user
\* included.
C14_CrossStrategyIndependence ==
    [][\A t \in Tasks :
          (\/ StartExecute(t) \/ BrokerAnswer(t) \/ GatherReturn(t)
           \/ SleepReturn(t) \/ \E i \in 1..2 : LegAnswer(t, i))
              => \A s \in Strategies \ {task[t].s} :
                    FieldsOf(s)' = FieldsOf(s)]_vars

\* C15: no manual override of a strategy's cash balance takes effect while
\* is_processing is true for that strategy.
C15_ManualOverrideRespectsGuard ==
    [][\A s \in Strategies, amount \in LedgerAmounts :
          UpdateCashRequest(s, amount) => ~is_processing[s]]_vars

\* the call history of the strategy of task t, followed by the request t
\* has posted and still awaits
Observed(t) ==
    api_calls[task[t].s] \o
        (IF task[t].pc \in {"close", "probe", "sized"}
         THEN << <<IF task[t].pc = "close" THEN "close" ELSE "buy",
                   task[t].sym, 0, "pending">> >>
         ELSE <<>>)

\* Reading a call history against a plan of sequential closes followed by one
\* buy.  leg: the close leg in progress (0: none yet); fails: its attempts
\* that failed; closed: it ended in a success; bought: a buy was seen.
PlanStart ==
    [ok |-> TRUE, leg |-> 0, fails |-> 0, closed |-> FALSE, bought |-> FALSE]

\* the close leg in progress has finished: succeeded, or out of retries
LegEnded(st) == st.leg = 0 \/ st.closed \/ st.fails >= MAX_CLOSE_RETRIES

\* one more call e of the history is read
ReadCall(st, e, sells, buy) ==
    LET failed == IF e[4] \in {"error", "ValidationError"} THEN 1 ELSE 0
        succeeded == e[4] \in {"filled", "accepted"}
    IN IF ~st.ok THEN st
       ELSE IF e[1] = "close"
       THEN IF st.bought THEN [st EXCEPT !.ok = FALSE]
            ELSE IF ~LegEnded(st) /\ e[2] = sells[st.leg]
            THEN [st EXCEPT !.fails = @ + failed, !.closed = succeeded]
            ELSE IF LegEnded(st) /\ st.leg < Len(sells)
                       /\ e[2] = sells[st.leg + 1]
            THEN [st EXCEPT !.leg = @ + 1, !.fails = failed,
                            !.closed = succeeded]
            ELSE [st EXCEPT !.ok = FALSE]
       ELSE IF LegEnded(st) /\ st.leg = Len(sells) /\ e[2] = buy
            THEN [st EXCEPT !.bought = TRUE]
            ELSE [st EXCEPT !.ok = FALSE]

RECURSIVE ReadPlan(_, _, _, _)
ReadPlan(h, st, sells, buy) ==
    IF h = <<>> THEN st
    ELSE ReadPlan(Tail(h), ReadCall(st, Head(h), sells, buy), sells, buy)

\* task t passed the guard and the cooldown test and ran its plan
Executed(t) == task[t].t0 # None

\* C16: sequential sell ordering in the multi-symbol form.  The broker calls
\* of an execution with sell list [s1..sn], the call it awaits included, are
\* close calls for s1, then for s2, ... in that order; a close call for
\* s(i+1) comes only after the leg of s(i) succeeded or failed
\* MAX_CLOSE_RETRIES times; a buy call comes only after the leg of sn
\* finished, and no close call comes after a buy call; an execution that
\* returned went through every leg of the list.
C16_SequentialSells ==
    \A t \in Tasks :
        (task[t].op = "multi" /\ Executed(t))
            => LET st == ReadPlan(Observed(t), PlanStart,
                                  task[t].sell_symbols, task[t].buy)
               IN /\ st.ok
                  /\ task[t].pc = "done"
                        => st.leg = Len(task[t].sell_symbols) /\ LegEnded(st)

\* C16 happens: a multi-symbol execution returned after a close leg that ran
\* out of retries, a close leg that followed it, and a buy
C16_Witness ==
    \E t \in Tasks :
        /\ task[t].op = "multi" /\ task[t].pc = "done"
        /\ Len(task[t].sell_symbols) >= 2
        /\ Len(api_calls[task[t].s]) >= MAX_CLOSE_RETRIES + 2
        /\ ReadPlan(api_calls[task[t].s], PlanStart, task[t].sell_symbols,
                    task[t].buy).bought

\* the list of the symbols configured among y (a null symbol is left out)
Configured(y) == IF y = NoSymbol THEN <<>> ELSE <<y>>

\* C17: plan resolution for long and short.  The broker calls of a 'long'
\* execution, the call it awaits included, are close calls for the
\* strategy's short_symbol followed by buy calls for its long_symbol, those of
\* a 'short' execution close calls for long_symbol followed by buy calls for
\* short_symbol, every close call before every buy call; a null symbol's leg
\* issues no call, and the execution still runs the other leg and returns
\* 'success'.
C17_PlanResolution ==
    \A t \in Tasks :
        (task[t].op \in {"long", "short"} /\ Executed(t))
            => LET s == task[t].s
                   closed == IF task[t].op = "long" THEN short_symbol[s]
                             ELSE long_symbol[s]
                   bought == IF task[t].op = "long" THEN long_symbol[s]
                             ELSE short_symbol[s]
                   st == ReadPlan(Observed(t), PlanStart, Configured(closed),
                                  bought)
               IN /\ st.ok
                  /\ task[t].pc = "done"
                        => /\ task[t].result = "success"
                           /\ st.leg = Len(Configured(closed))
                           /\ st.bought <=> bought # NoSymbol

\* C17 happens: a 'long' execution on a strategy without short symbol
\* returned after buy calls only, and a 'short' execution on a strategy with
\* both symbols returned after close and buy calls
C17_Witness ==
    \E t, u \in Tasks :
        /\ task[t].op = "long" /\ task[t].pc = "done" /\ Executed(t)
        /\ short_symbol[task[t].s] = NoSymbol
        /\ api_calls[task[t].s] # <<>>
        /\ task[u].op = "short" /\ task[u].pc = "done" /\ Executed(u)
        /\ short_symbol[task[u].s] # NoSymbol
        /\ Len(api_calls[task[u].s]) >= 2

\* C18: a 'close' execution hands one close coroutine per configured symbol
\* to gather, all of them awaiting their broker call together, and issues
\* no buy call; whatever the order in which the close coroutines are
\* answered, the strategy's cash_balance moves, from the start of the
\* execution to its return, by the proceeds (price * quantity) of the closes
\* that filled and by nothing else: each fill adds its proceeds and no other
\* step in between changes the balance.
C18_CloseOrderIndependent ==
    /\ [](\A t \in Tasks :
            (task[t].op = "close" /\ Executed(t))
                => /\ task[t].pc \in {"gather", "done"}
                   /\ [i \in DOMAIN legs[t] |-> legs[t][i].sym]
                         = Configured(long_symbol[task[t].s])
                               \o Configured(short_symbol[task[t].s])
                   /\ \A i \in DOMAIN api_calls[task[t].s] :
                         api_calls[task[t].s][i][1] = "close")
    /\ [][\A t \in Tasks :
            (task[t].op = "close" /\ task[t].pc = "gather")
                => LET s == task[t].s
                   IN \/ \E i \in DOMAIN legs[t] :
                            /\ LegAnswer(t, i) /\ LegFills(t, i)
                            /\ cash_balance'[s] = cash_balance[s]
                                  + FillPrice[legs[t][i].sym]
                                      * FillQuantity[legs[t][i].sym]
                      \/ /\ ~\E i \in DOMAIN legs[t] :
                               LegAnswer(t, i) /\ LegFills(t, i)
                         /\ cash_balance'[s] = cash_balance[s]]_vars

\* the broker's answer to a close request for y is not a success
CloseFails(y) ==
    Respond(broker[y], served[y], y, "close", 1).status
        \notin {"filled", "accepted"}

\* the answer the sequential close leg of task t awaits fails and uses up
\* the last retry of the leg
CloseExhausts(t) ==
    /\ task[t].pc = "close"
    /\ task[t].retries = MAX_CLOSE_RETRIES - 1
    /\ CloseFails(task[t].sym)

\* the same for the i-th close coroutine gathered by task t
LegExhausts(t, i) ==
    /\ i \in DOMAIN legs[t]
    /\ legs[t][i].pc = "close"
    /\ legs[t][i].retries = MAX_CLOSE_RETRIES - 1
    /\ CloseFails(legs[t][i].sym)

\* C19: a close leg that runs out of retries raises nothing and aborts
\* nothing.  In the step in which a sequential leg fails for the last time the
\* execution goes on to the next close of its sell list, or, the list done,
\* to its buy step (the probe of a 'long' / 'short' plan; the probe of a
\* multi-symbol plan, or the pause that follows when the cash does not allow
\* one), or returns when there is nothing to buy; a gathered leg that fails
\* for the last time returns and leaves its sibling running; and every
\* execution returns 'success'.
C19_ExhaustedCloseDoesNotAbort ==
    /\ [][\A t \in Tasks :
            (BrokerAnswer(t) /\ CloseExhausts(t))
                => LET tk == task[t]
                       s == tk.s
                       bought == CASE tk.op = "long" -> long_symbol[s]
                                   [] tk.op = "short" -> short_symbol[s]
                                   [] OTHER -> tk.buy
                   IN /\ task'[t].result # "error"
                      /\ IF tk.op = "multi" /\ tk.sells # <<>>
                         THEN /\ task'[t].pc = "close"
                              /\ task'[t].sym = Head(tk.sells)
                              /\ task'[t].n = tk.n + 1
                         ELSE IF bought = NoSymbol
                         THEN /\ task'[t].pc = "done"
                              /\ task'[t].result = "success"
                         ELSE IF tk.op = "multi" /\ cash_balance[s] <= 5
                         THEN task'[t].pc = "settle"
                         ELSE /\ task'[t].pc = "probe"
                              /\ task'[t].sym = bought
                              /\ task'[t].n = tk.n + 1]_vars
    /\ [][\A t \in Tasks, i \in 1..2 :
            (LegAnswer(t, i) /\ LegExhausts(t, i))
                => /\ legs'[t][i].pc = "returned"
                   /\ \A j \in DOMAIN legs[t] \ {i} : legs'[t][j] = legs[t][j]
                   /\ task'[t].pc = "gather"]_vars
    /\ [](\A t \in Tasks :
            (Executed(t) /\ task[t].pc = "done")
                => task[t].result = "success")

\* C19 happens: a 'long' execution whose close leg failed
\* MAX_CLOSE_RETRIES times went on to its buy calls and returned 'success'
C19_Witness ==
    \E t \in Tasks :
        /\ task[t].op = "long" /\ task[t].pc = "done"
        /\ task[t].result = "success"
        /\ short_symbol[task[t].s] # NoSymbol
        /\ LET st == ReadPlan(api_calls[task[t].s], PlanStart,
                              <<short_symbol[task[t].s]>>,
                              long_symbol[task[t].s])
           IN st.ok /\ st.fails = MAX_CLOSE_RETRIES /\ st.bought

\* the broker's answer to a close request for y
CloseResponse(y) == Respond(broker[y], served[y], y, "close", 1)

\* what close_position reports for the broker's answer to a close of y
CloseReport(y) ==
    close_position(IF CloseResponse(y).status \in {"filled", "accepted"}
                   THEN "success" ELSE "failure", CloseResponse(y))

\* C20: close idempotence on an empty book.  A close call answered
\* 'accepted' without fill data is reported as a success with null price and
\* quantity; the step that receives it leaves cash_balance unchanged, ends
\* the close leg without a retry (the execution goes on with its plan) and
\* raises no error.  A close answered 'filled' with price p and quantity q
\* is reported with p and q, and the step that receives it increases
\* cash_balance by exactly p * q.
C20_CloseIdempotentOnEmptyBook ==
    /\ [][\A t \in Tasks :
            (BrokerAnswer(t) /\ task[t].pc = "close")
                => LET y == task[t].sym
                       s == task[t].s
                       resp == CloseResponse(y)
                   IN /\ resp.status = "accepted"
                           => /\ CloseReport(y) = [success |-> TRUE,
                                                   price |-> None,
                                                   quantity |-> None]
                              /\ cash_balance'[s] = cash_balance[s]
                              /\ task'[t].result # "error"
                              /\ task'[t].pc = "close"
                                    => /\ task[t].sells # <<>>
                                       /\ task'[t].sells = Tail(task[t].sells)
                                       /\ task'[t].retries = 0
                      /\ resp.status = "filled"
                           => /\ CloseReport(y) = [success |-> TRUE,
                                                   price |-> resp.price,
                                                   quantity |-> resp.quantity]
                              /\ cash_balance'[s] = cash_balance[s]
                                    + resp.price * resp.quantity]_vars
    /\ [][\A t \in Tasks, i \in 1..2 :
            (LegAnswer(t, i) /\ legs[t][i].pc = "close")
                => LET y == legs[t][i].sym
                       s == task[t].s
                       resp == CloseResponse(y)
                   IN /\ resp.status = "accepted"
                           => /\ cash_balance'[s] = cash_balance[s]
                              /\ legs'[t][i].pc = "returned"
                              /\ legs'[t][i].retries = 0
                      /\ resp.status = "filled"
                           => /\ cash_balance'[s] = cash_balance[s]
                                    + resp.price * resp.quantity
                              /\ legs'[t][i].pc = "returned"]_vars

\* C20 happens: a 'close' execution whose close of one symbol was answered
\* 'accepted' and whose close of the other filled returned 'success', the
\* balance increased by the proceeds of the one fill
C20_Witness ==
    \E t \in Tasks :
        /\ task[t].op = "close" /\ task[t].pc = "done"
        /\ task[t].result = "success"
        /\ \E i, j \in DOMAIN api_calls[task[t].s] :
              /\ api_calls[task[t].s][i][4] = "accepted"
              /\ api_calls[task[t].s][j][4] = "filled"
        /\ Len(api_calls[task[t].s]) = 2
        /\ cash_balance[task[t].s]
              = InitialCash[task[t].s]
                  + FillPrice[short_symbol[task[t].s]]
                      * FillQuantity[short_symbol[task[t].s]]

\* the buy requests in the call history of strategy s, and those after the
\* 1-share probe
BuyCalls(s) == SelectSeq(api_calls[s], LAMBDA e : e[1] = "buy")
SizedCalls(s) == IF BuyCalls(s) = <<>> THEN <<>> ELSE Tail(BuyCalls(s))

\* task t ran the reduce-retry loop of _buy_symbol against a broker that
\* fills a buy below a threshold and rejects the others, and the loop ended
ShrinkEnded(t) ==
    /\ Executed(t) /\ task[t].op = "long"
    /\ task[t].pc \in {"settle", "done"}
    /\ broker[long_symbol[task[t].s]].kind = "limit"
    /\ SizedCalls(task[t].s) # <<>>

\* the loop of t issued at most MAX_BUY_RETRIES sized buys, all but the last
\* rejected at a quantity of K or more, and ended in the 1-share fallback
\* (the last one rejected too, the budget used up, nothing spent after the
\* probe) or in a fill below K: at a quantity smaller than the first
\* request, or, unless `strictly`, at the first request when that one is
\* below K already
ShrinkOutcome(t, strictly) ==
    LET s == task[t].s
        y == long_symbol[s]
        K == broker[y].limit
        calls == SizedCalls(s)
        S == calls[1][3]
        last == calls[Len(calls)]
    IN /\ Len(calls) <= MAX_BUY_RETRIES
       /\ \A i \in 1..(Len(calls) - 1) :
             calls[i][4] = "ValidationError" /\ calls[i][3] >= K
       /\ \/ /\ last[4] = "filled" /\ last[3] < K
             /\ \/ last[3] < S
                \/ ~strictly /\ Len(calls) = 1 /\ S < K
          \/ /\ last[4] = "ValidationError" /\ last[3] >= K
             /\ Len(calls) = MAX_BUY_RETRIES
             /\ cash_balance[s] \div FillPrice[y] = S

\* no sized buy is awaited after MAX_BUY_RETRIES of them failed
ShrinkBounded ==
    \A t \in Tasks : task[t].pc = "sized" => task[t].retries < MAX_BUY_RETRIES

\* C21: buy shrink convergence.  Against a broker that rejects every sized
\* buy of K shares or more and fills every one below K, the reduce-retry
\* loop ends within MAX_BUY_RETRIES requests, either in a fill at a quantity
\* smaller than the first request or in the 1-share fallback when no
\* quantity below K is reached within the budget.
C21_BuyShrinkConvergence ==
    /\ ShrinkBounded
    /\ \A t \in Tasks : ShrinkEnded(t) => ShrinkOutcome(t, TRUE)

\* C21 as the code has it: the same, the fill being at the first request's
\* own quantity when that quantity is below K already (nothing is shrunk
\* then), and at a smaller quantity otherwise.
C21_BuyShrinkConvergenceFromFirstRequest ==
    /\ ShrinkBounded
    /\ \A t \in Tasks : ShrinkEnded(t) => ShrinkOutcome(t, FALSE)

\* C21 happens: the loop shrank the request after rejections and a sized buy
\* below the threshold filled
C21_Witness ==
    \E t \in Tasks :
        /\ ShrinkEnded(t) /\ task[t].pc = "done"
        /\ Len(SizedCalls(task[t].s)) > 1
        /\ SizedCalls(task[t].s)[Len(SizedCalls(task[t].s))][4] = "filled"

\* the scenario of a 'long' signal with nothing to close: strategy a holds
\* 1000 in cash, the broker answers the close of BBB 'accepted' (no position)
\* and fills the buys of AAA at 10; task t carries the signal, and nothing
\* ran on the strategy before
ScenarioBroker == Cfg(Script("fill", 0), Script("accept", 0))
ScenarioStart(t) ==
    /\ task[t].pc = "queued" /\ task[t].op = "long" /\ task[t].s = "a"
    /\ broker = ScenarioBroker
    /\ cash_balance["a"] = 1000
    /\ ~is_processing["a"] /\ ~in_cooldown["a"] /\ api_calls["a"] = <<>>

\* the end of the scenario: the history is close, probe buy, sized buy of 99
ScenarioFinal ==
    /\ ~is_processing["a"]
    /\ CooldownActive("a")
    /\ cash_balance["a"] = 0
    /\ api_calls["a"] = <<ApiCall([action |-> "close", symbol |-> "BBB",
                                   quantity |-> 0], "accepted"),
                          ApiCall([action |-> "buy", symbol |-> "AAA",
                                   quantity |-> 1], "filled"),
                          ApiCall([action |-> "buy", symbol |-> "AAA",
                                   quantity |-> 99], "filled")>>

\* C22: in the scenario (cash_balance 1000, minimum cash balance 5, long
\* symbol AAA, short symbol BBB, close(BBB) answered 'accepted', both buys
\* filled at 10), a 'long' signal that is executed awaits its sized buy with
\* cash_balance 990 and 99 shares, and ends with is_processing false, the
\* cooldown active, cash_balance 0 and exactly the three history entries
\* close, probe buy, sized buy, in that order.
C22_LongScenario ==
    \A t \in Tasks :
        [](ScenarioStart(t)
             => [](/\ task[t].pc = "sized"
                        => cash_balance["a"] = 990 /\ task[t].shares = 99
                   /\ (task[t].pc = "done" /\ Executed(t))
                        => ScenarioFinal))

\* C22 happens: the signal of the scenario was executed and has returned
C22_Witness ==
    \E t \in Tasks :
        /\ task[t].op = "long" /\ task[t].pc = "done" /\ Executed(t)
        /\ task[t].result = "success" /\ task[t].n = 3
        /\ broker = ScenarioBroker
        /\ cash_balance["a"] = 0 /\ Len(api_calls["a"]) = 3

\* the last call was get_max_shares
MaxSharesReturned == ret.op = "get_max_shares"

\* C23: maxShares(price, strategy) returns 0 whenever cash_balance is at most
\* the minimum cash balance and floor(cash_balance / price) otherwise; for a
\* positive price it is never negative, and for a fixed balance it does not
\* increase with the price.
C23_MaxShares ==
    /\ MaxSharesReturned =>
          LET cash == cash_balance[ret.s]
          IN /\ cash <= MINIMUM_CASH_BALANCE => ret.value = 0
             /\ cash > MINIMUM_CASH_BALANCE =>
                   /\ ret.value * ret.price <= cash
                   /\ cash < (ret.value + 1) * ret.price
             /\ ret.value >= 0
    /\ \A s \in Strategies, p, q \in SharePrices :
          p <= q => get_max_shares(World, s, q) <= get_max_shares(World, s, p)

\* C23 happens: the share count was asked with a balance above the minimum
\* and a price that does not divide it
C23_Witness ==
    /\ MaxSharesReturned
    /\ cash_balance[ret.s] = 25 /\ ret.price = 7 /\ ret.value = 3

\* the last n elements of sequence q, all of them when it has fewer
LastN(q, n) == IF Len(q) > n THEN SubSeq(q, Len(q) - n + 1, Len(q)) ELSE q

\* the record of the close request task t awaits, as the broker answers it
CloseRecord(t) ==
    <<"close", task[t].sym, 0, CloseResponse(task[t].sym).status>>

\* the record of the k-th request of the sell list, when no request is
\* retried
SellRecord(k) ==
    <<"close", HistorySells[k], 0,
      IF broker[HistorySells[k]].kind = "fill" THEN "filled" ELSE "accepted">>

\* the requests of its sell list that task t has had answered
Answered(t) == IF task[t].pc = "close" THEN task[t].n - 1 ELSE task[t].n

\* C24: a strategy's call history never holds more than 100 entries; each
\* answered broker call appends its record at the end and, when that makes
\* 101, evicts the oldest one; so after n appends the history is the most
\* recent min(n, 100) records in the order they were appended.
C24_HistoryBounded ==
    /\ [](\A s \in Strategies : Len(api_calls[s]) <= MAX_API_CALLS)
    /\ [][\A t \in Tasks :
            BrokerAnswer(t)
                => api_calls'[task[t].s] =
                       LastN(Append(api_calls[task[t].s], CloseRecord(t)),
                             MAX_API_CALLS)]_vars
    /\ [](\A t \in Tasks :
            (/\ task[t].op = "multi" /\ Executed(t)
             /\ \A y \in Symbols : broker[y].kind \in {"fill", "accept"})
                => LET n == Answered(t)
                       kept == IF n < MAX_API_CALLS THEN n ELSE MAX_API_CALLS
                   IN api_calls[task[t].s] =
                          [i \in 1..kept |-> SellRecord(n - kept + i)])

\* C24 happens: more than 100 calls were appended and the history holds 100
C24_Witness ==
    \E t \in Tasks :
        /\ task[t].op = "multi" /\ task[t].pc = "done"
        /\ task[t].n > MAX_API_CALLS
        /\ Len(api_calls[task[t].s]) = MAX_API_CALLS
        /\ api_calls[task[t].s][1] # SellRecord(1)

\* task t returns in this step
Returns(t) == task[t].pc # "done" /\ task'[t].pc = "done"

\* C25: every execute call returns one of 'ignored', 'success', 'error'; it
\* returns 'error' only when an exception left its plan or the signal type
\* is unknown, never because a leg failed: a call that was executed and
\* whose plan raised nothing returns 'success', whether or not its legs
\* filled.
C25_StatusIgnoresLegFailures ==
    /\ [](\A t \in Tasks :
            task[t].pc = "done"
                => task[t].result \in {"ignored", "success", "error"})
    /\ [][\A t \in Tasks :
            (Returns(t) /\ task'[t].result = "error")
                => \/ BrokerAnswer(t) /\ AnswerRaises(t)
                   \/ GatherReturn(t) /\ LegRaised(t)
                   \/ StartExecute(t) /\ task[t].op = "bogus"]_vars
    /\ [][\A t \in Tasks :
            (/\ Returns(t) /\ task'[t].t0 # None
             /\ ~(BrokerAnswer(t) /\ AnswerRaises(t))
             /\ ~(GatherReturn(t) /\ LegRaised(t))
             /\ task[t].op # "bogus")
                => task'[t].result = "success"]_vars

\* C25 happens: a 'long' signal whose close found no position and whose
\* probe buy failed returned 'success' with nothing filled
C25_Witness ==
    \E t \in Tasks :
        /\ task[t].op = "long" /\ task[t].pc = "done"
        /\ task[t].result = "success" /\ task[t].n = 2
        /\ \A i \in DOMAIN api_calls[task[t].s] :
              api_calls[task[t].s][i][4] # "filled"
        /\ \E i \in DOMAIN api_calls[task[t].s] :
              api_calls[task[t].s][i][4] \in {"ValidationError", "error"}

\* the tasks a broadcast created
Broadcast == {t \in Tasks : task[t].pc # "unused"}

\* a step of task t
StepOf(t) ==
    \/ StartExecute(t) \/ BrokerAnswer(t) \/ GatherReturn(t) \/ SleepReturn(t)
    \/ \E i \in 1..2 : LegAnswer(t, i)

\* C26: the tasks of a broadcast work on different strategies and a step of
\* one leaves the others as they are; every one of them runs to its return,
\* whether or not another one ended in an error; and when all of them have
\* returned, the guard of every strategy is released.
C26_BroadcastIsolation ==
    /\ [](\A t, u \in Broadcast : t # u => task[t].s # task[u].s)
    /\ [][\A t \in Tasks :
            StepOf(t) => \A u \in Tasks \ {t} :
                            task'[u] = task[u] /\ legs'[u] = legs[u]]_vars
    /\ \A t \in Tasks : (task[t].pc = "queued") ~> (task[t].pc = "done")
    /\ []((Broadcast # {} /\ \A t \in Broadcast : task[t].pc = "done")
            => \A s \in Strategies : ~is_processing[s])

\* C26 happens: of a broadcast signal, the execution on one strategy ended in
\* an error and the one on the other strategy completed its plan
C26_Witness ==
    \E t, u \in Broadcast :
        /\ task[t].pc = "done" /\ task[t].result = "error" /\ task[t].n > 0
        /\ task[u].pc = "done" /\ task[u].result = "success" /\ task[u].n > 0
        /\ \A s \in Strategies : ~is_processing[s]

\* the amount is a finite number
IsFinite(amount) == amount \notin {NotANumber, NaN, Infinity}

\* C27: applyManual sets the balance to the given amount when it parses as a
\* finite number; when it does not (a text that is no number, NaN or an
\* infinite amount) the call fails and the prior balance is unchanged.
C27_ManualRejectsNonFinite ==
    [][\A s \in Strategies, amount \in ManualAmounts :
          ApplyManual(s, amount)
              => IF IsFinite(amount)
                 THEN ret'.value /\ cash_balance'[s] = amount
                 ELSE ~ret'.value /\ cash_balance' = cash_balance]_vars

\* the broker answers the close request for y with a success
CloseSucceeds(y) == CloseResponse(y).status \in {"filled", "accepted"}

\* after this step task t awaits one more answer for the close leg it awaits
\* now
SameLeg(t) ==
    /\ task'[t].pc = "close" /\ task'[t].sym = task[t].sym
    /\ task'[t].sells = task[t].sells

\* C28: a close leg calls close(symbol) at most MAX_CLOSE_RETRIES times,
\* whatever the failures are: it ends at the first successful call, goes on
\* to the next call after a failed one while the budget lasts, and ends
\* when the budget is used up; once ended it issues no further call, and a
\* plan of process_signal that has left its close leg never closes again.
C28_CloseBounded ==
    /\ [](\A t \in Tasks :
            /\ task[t].pc = "close" => task[t].retries < MAX_CLOSE_RETRIES
            /\ \A i \in DOMAIN legs[t] :
                  legs[t][i].pc = "close"
                      => legs[t][i].retries < MAX_CLOSE_RETRIES)
    /\ [][\A t \in Tasks :
            (BrokerAnswer(t) /\ task[t].pc = "close")
                => IF CloseSucceeds(task[t].sym)
                   THEN ~SameLeg(t)
                   ELSE IF task[t].retries + 1 < MAX_CLOSE_RETRIES
                   THEN SameLeg(t) /\ task'[t].retries = task[t].retries + 1
                   ELSE ~SameLeg(t)]_vars
    /\ [][\A t \in Tasks, i \in 1..2 :
            LegAnswer(t, i)
                => IF CloseSucceeds(legs[t][i].sym)
                   THEN legs'[t][i].pc = "returned"
                   ELSE IF legs[t][i].retries + 1 < MAX_CLOSE_RETRIES
                   THEN /\ legs'[t][i].pc = "close"
                        /\ legs'[t][i].retries = legs[t][i].retries + 1
                   ELSE legs'[t][i].pc = "returned"]_vars
    /\ [][\A t \in Tasks :
            /\ \A i \in DOMAIN legs[t] :
                  legs[t][i].pc # "close" => legs'[t][i] = legs[t][i]
            /\ (task[t].op # "multi"
                  /\ task[t].pc \in {"probe", "sized", "settle", "done"})
                  => task'[t].pc # "close"]_vars

\* C28 happens: a close leg that failed MAX_CLOSE_RETRIES times was followed
\* by the buy, with no further close
C28_Witness ==
    \E t \in Tasks :
        LET closes == SelectSeq(api_calls[task[t].s],
                                LAMBDA e : e[1] = "close")
        IN /\ task[t].op = "long" /\ task[t].pc = "done"
           /\ Len(closes) = MAX_CLOSE_RETRIES
           /\ \A i \in DOMAIN closes : closes[i][4] = "ValidationError"
           /\ BuyCalls(task[t].s) # <<>>

\* the broker's answer to the probe task t awaits is no success, or a success
\* without a price
ProbeFails(t) ==
    /\ task[t].pc = "probe"
    /\ LET resp == Respond(broker[task[t].sym], served[task[t].sym],
                           task[t].sym, "buy", 1)
       IN \/ resp.kind # "json"
          \/ resp.status \notin {"filled", "accepted"}
          \/ resp.price = None

\* C29: when the 1-share probe fails or returns no price the buy leg ends:
\* no further request is issued (the probe is not repeated, no sized buy
\* follows), cash_balance is left as it was, nothing is raised, and after
\* the pause the signal returns 'success'.
C29_ProbeFailureAbortsBuy ==
    /\ [][\A t \in Tasks :
            (BrokerAnswer(t) /\ ProbeFails(t))
                => /\ task'[t].pc = "settle"
                   /\ task'[t].n = task[t].n
                   /\ cash_balance' = cash_balance]_vars
    /\ [][\A t \in Tasks :
            task[t].pc = "settle"
                => \/ task'[t] = task[t]
                   \/ /\ task'[t] = [task[t] EXCEPT !.pc = "done",
                                                     !.result = "success"]
                      /\ cash_balance' = cash_balance
                      /\ api_calls' = api_calls]_vars

\* C29 happens: a 'long' signal whose probe was rejected has returned, the
\* probe being its only buy request
C29_Witness ==
    \E t \in Tasks :
        /\ task[t].op = "long" /\ task[t].pc = "done"
        /\ task[t].result = "success"
        /\ BuyCalls(task[t].s) =
               <<ApiCall([action |-> "buy", symbol |-> long_symbol[task[t].s],
                          quantity |-> 1], "ValidationError")>>

\* the broker's answer to the sized buy task t awaits is no success
SizedFails(t) ==
    /\ task[t].pc = "sized"
    /\ LET resp == Respond(broker[task[t].sym], served[task[t].sym],
                           task[t].sym, "buy", task[t].shares)
       IN resp.kind # "json" \/ resp.status \notin {"filled", "accepted"}

\* max(1, floor(shares * reductionPercent / 100)), the percent being 0.1
Reduction(shares) == Max(1, (shares * BUY_RETRY_REDUCTION_TENTHS) \div 1000)

\* the first sized request is for the shares the balance left by the probe
\* buys at the probe's price
SizedFirst(t) ==
    (BrokerAnswer(t) /\ task[t].pc = "probe" /\ task'[t].pc = "sized")
        => LET s == task[t].s
               price == FillPrice[task[t].sym]
           IN /\ cash_balance'[s] = cash_balance[s] - price
              /\ task'[t].shares = cash_balance'[s] \div price

\* after a failed request for `shares` of the loop of _buy_symbol the next
\* one is for shares - Reduction(shares), or, if `floored`, for one share
\* when that is less than one; the balance is untouched; the failure that
\* uses up the budget ends the leg with no further request
SizedRetry(t, floored) ==
    (BrokerAnswer(t) /\ SizedFails(t) /\ task[t].op # "multi")
        => /\ cash_balance' = cash_balance
           /\ IF task[t].retries + 1 < MAX_BUY_RETRIES
              THEN /\ task'[t].pc = "sized"
                   /\ task'[t].n = task[t].n + 1
                   /\ task'[t].shares =
                          IF floored
                          THEN Max(1, task[t].shares
                                          - Reduction(task[t].shares))
                          ELSE task[t].shares - Reduction(task[t].shares)
              ELSE /\ task'[t].pc = "settle"
                   /\ task'[t].n = task[t].n

\* a buy leg that ended issues no request before the plan returns
SettleQuiet(t) ==
    task[t].pc = "settle"
        => task'[t].n = task[t].n /\ task'[t].pc \in {"settle", "done"}

RECURSIVE BuyPaid(_)
BuyPaid(h) ==
    IF h = <<>> THEN 0
    ELSE BuyPaid(Tail(h))
            + (IF Head(h)[1] = "buy" /\ Head(h)[4] = "filled"
               THEN FillPrice[Head(h)[2]] * Head(h)[3] ELSE 0)

\* the balances a buy algorithm of SpecBuy can start with: the initial
\* cash, or that and the proceeds of the close of the short symbol
BuyStart ==
    BuyCash \cup {c + FillPrice["BBB"] * FillQuantity["BBB"] : c \in BuyCash}

\* task t is at the start of its buy algorithm with a balance of c: it
\* awaits the answer to the probe, the first buy request of the strategy
BuyStarts(t, c) ==
    /\ task[t].pc = "probe" /\ BuyCalls(task[t].s) = <<>>
    /\ cash_balance[task[t].s] = c
    /\ broker[task[t].sym].kind # "badprice"

\* the buy algorithm of t ended with c less the cost of its filled buys
BuyEnds(t, c) ==
    task[t].pc \in {"settle", "done"}
        => cash_balance[task[t].s] = c - BuyPaid(api_calls[task[t].s])

\* the answer to a buy of t is booked if and only if it is a fill: the
\* probe's before the share count is taken, the sized buy's at the quantity
\* requested, ending the loop
BuyBooked(t) ==
    (BrokerAnswer(t) /\ task[t].pc \in {"probe", "sized"})
        => LET s == task[t].s
               price == FillPrice[task[t].sym]
           IN IF ~AnswerFills(t) THEN cash_balance' = cash_balance
              ELSE IF task[t].pc = "probe"
              THEN /\ cash_balance'[s] = cash_balance[s] - price * 1
                   /\ task'[t].pc \in {"sized", "settle"}
                   /\ task'[t].pc = "sized"
                         => task'[t].shares = cash_balance'[s] \div price
              ELSE /\ cash_balance'[s]
                         = cash_balance[s] - price * task[t].shares
                   /\ task'[t].pc = "settle"
                   /\ task'[t].n = task[t].n

\* C31: the ledger reflects every confirmed buy fill: the probe fill
\* reduces cash_balance by its price * 1 before maxShares is computed, the
\* first successful sized buy reduces cash_balance by its fill price times
\* the requested quantity and ends the loop with no further buy request, and
\* at the end of the buy algorithm cash_balance is the starting balance less
\* the sum of price * quantity over the successful buy calls.  (A price is a
\* number here: no product exists for a price sent as text.)
C31_LedgerReflectsBuys ==
    /\ [][\A t \in Tasks : BuyBooked(t)]_vars
    /\ [][\A t \in Tasks : SettleQuiet(t)]_vars
    /\ \A c \in BuyStart :
          [](\A t \in Tasks :
                BuyStarts(t, c) => [](BuyEnds(t, c)))

\* C31 happens: a 'long' signal returned after its probe filled, sized buys
\* were rejected and a smaller one filled, the balance being what the two
\* fills left
C31_Witness ==
    \E t \in Tasks :
        /\ task[t].op = "long" /\ task[t].pc = "done" /\ Executed(t)
        /\ Len(SizedCalls(task[t].s)) > 2
        /\ SizedCalls(task[t].s)[Len(SizedCalls(task[t].s))][4] = "filled"
        /\ BuyPaid(api_calls[task[t].s]) > FillPrice[long_symbol[task[t].s]]
        /\ cash_balance[task[t].s] + BuyPaid(api_calls[task[t].s]) \in BuyStart

\* task t runs the 'buy with all available cash' variant
AllCash(t) == task[t].op = "multi" /\ Executed(t)

\* the buy requests of the all-cash variant: the probe, issued once, when
\* the sells are through, and one order for the share count the balance
\* left by the probe buys, issued when the probe filled; whatever the
\* answer to that order, the buy ends with it
AllCashStep(t) ==
    AllCash(t)
        => /\ task'[t].n > task[t].n /\ task'[t].pc = "probe"
                => task[t].pc = "close" /\ task[t].sells = <<>>
           /\ task'[t].n > task[t].n /\ task'[t].pc = "sized"
                => /\ task[t].pc = "probe"
                   /\ task'[t].shares
                         = get_max_shares([cash_balance |-> cash_balance'],
                                          task[t].s, FillPrice[task[t].sym])
           /\ task[t].pc = "sized"
                => /\ task'[t].pc \in {"sized", "settle", "done"}
                   /\ task'[t].n = task[t].n
                   /\ task'[t].shares = task[t].shares
                   /\ BrokerAnswer(t) /\ ~AnswerFills(t)
                         => cash_balance' = cash_balance
                   /\ BrokerAnswer(t) /\ SizedFails(t)
                         => task'[t].pc = "settle"

\* C32: in the multi-symbol 'buy with all available cash' variant the
\* engine, after the 1-share probe, attempts exactly one order for the full
\* remaining maxShares quantity and accepts its outcome as final: at most
\* two buy requests are issued per signal, and a failed full-size order is
\* never retried or shrunk.
C32_AllCashSingleOrder ==
    /\ [][\A t \in Tasks : AllCashStep(t)]_vars
    /\ [][\A t \in Tasks : SettleQuiet(t)]_vars
    /\ [](\A t \in Tasks :
            AllCash(t)
                => /\ task[t].n <= Len(task[t].sell_symbols) + 2
                   /\ task[t].retries = 0)

\* C32 happens: an all-cash buy returned after its probe filled and its
\* full-size order for more than one share was rejected: two buy requests,
\* and only the probe paid for
C32_Witness ==
    \E t \in Tasks :
        /\ AllCash(t) /\ task[t].pc = "done" /\ task[t].result = "success"
        /\ task[t].n = Len(task[t].sell_symbols) + 2
        /\ task[t].shares > 1
        /\ BuyCalls(task[t].s)
              = <<ApiCall([action |-> "buy", symbol |-> task[t].buy,
                           quantity |-> 1], "filled"),
                  ApiCall([action |-> "buy", symbol |-> task[t].buy,
                           quantity |-> task[t].shares], "ValidationError")>>
        /\ BuyPaid(api_calls[task[t].s]) = FillPrice[task[t].buy]

\* the HTTP requests task t awaits an answer to
Pending(t) ==
    (IF task[t].pc \in {"close", "probe", "sized"} THEN 1 ELSE 0)
        + Cardinality({i \in DOMAIN legs[t] : legs[t][i].pc = "close"})

\* the HTTP attempts made for strategy s and answered (or timed out), by the
\* tasks 1..k
RECURSIVE Attempts(_, _)
Attempts(s, k) ==
    IF k = 0 THEN 0
    ELSE Attempts(s, k - 1)
            + (IF task[k].s = s THEN task[k].n - Pending(k) ELSE 0)

\* a broker-client call for strategy s is between two of its attempts
MidCall(s) ==
    \E t \in Tasks :
        /\ task[t].s = s
        /\ \/ task[t].pc \in {"close", "probe", "sized"}
                 /\ task[t].retry_count > 0
           \/ \E i \in DOMAIN legs[t] :
                 legs[t][i].pc = "close" /\ legs[t][i].retry_count > 0

\* C33: every broker-client attempt, successful or not, appends exactly one
\* record to the strategy's call history: after a buy or close call that
\* made k HTTP attempts (attempts that timed out or failed to connect
\* included) the history has grown by exactly k entries, so between calls
\* the history holds one record per attempt made (below the 100-entry cap).
C33_OneRecordPerAttempt ==
    \A s \in Strategies :
        (~MidCall(s) /\ Attempts(s, MaxTasks) < MAX_API_CALLS)
            => Len(api_calls[s]) = Attempts(s, MaxTasks)

\* the request task t awaits an answer to, and the answer it is about to get
PayloadOf(t) ==
    [action |-> IF task[t].pc = "close" THEN "close" ELSE "buy",
     symbol |-> task[t].sym,
     quantity |-> CASE task[t].pc = "close" -> 0
                    [] task[t].pc = "sized" -> task[t].shares
                    [] OTHER -> 1]
AnswerOf(t) ==
    Respond(broker[task[t].sym], served[task[t].sym], task[t].sym,
            IF task[t].pc = "close" THEN "close" ELSE "buy",
            IF task[t].pc = "sized" THEN task[t].shares ELSE 1)

\* the same for the i-th close coroutine gathered by t
LegPayloadOf(t, i) ==
    [action |-> "close", symbol |-> legs[t][i].sym, quantity |-> 0]
LegAnswerOf(t, i) ==
    Respond(broker[legs[t][i].sym], served[legs[t][i].sym], legs[t][i].sym,
            "close", 1)

\* the client call of strategy s that gets the answer resp to its attempt
\* number retry_count + 1 returns at once when the status is filled,
\* accepted (success) or ValidationError (failure), one record appended
ReturnsAtOnce(s, payload, resp, retry_count) ==
    (resp.kind = "json"
        /\ resp.status \in {"filled", "accepted", "ValidationError"})
        => LET r == make_request(World, s, payload, resp, retry_count)
           IN /\ r.outcome = IF resp.status = "ValidationError"
                             THEN "failure" ELSE "success"
              /\ r.retry_count = retry_count
              /\ api_calls'[s]
                    = Append(api_calls[s], ApiCall(payload, resp.status))

\* the step of task t is one more attempt of the call it is in
NextAttempt(t) ==
    /\ task'[t].pc = task[t].pc /\ task'[t].retries = task[t].retries
    /\ task'[t].retry_count = task[t].retry_count + 1
LegNextAttempt(t, i) ==
    /\ legs'[t][i].pc = "close" /\ legs'[t][i].retries = legs[t][i].retries
    /\ legs'[t][i].retry_count = legs[t][i].retry_count + 1

\* the caller of t's call saw it fail: a close is tried again or given up,
\* a probe ends the buy, a sized buy is reduced or given up; nothing is
\* booked
SeenFailed(t) ==
    /\ cash_balance' = cash_balance
    /\ CASE task[t].pc = "close" ->
              \/ task'[t].pc = "close" /\ task'[t].sym = task[t].sym
                    /\ task'[t].retries = task[t].retries + 1
                    /\ task'[t].retry_count = 0
              \/ task[t].retries + 1 = MAX_CLOSE_RETRIES
                    /\ task'[t].pc \in {"close", "probe", "settle", "done"}
                    /\ task'[t].retries = 0
         [] task[t].pc = "probe" ->
              task'[t].pc = "settle" /\ task'[t].n = task[t].n
         [] OTHER ->
              \/ task'[t].pc = "sized"
                    /\ task'[t].retries = task[t].retries + 1
                    /\ task'[t].retry_count = 0
              \/ task'[t].pc = "settle" /\ task'[t].n = task[t].n

\* C34: a broker response with status 'ValidationError' is terminal for the
\* broker-client call: the client returns success = false at once with that
\* response and makes no further HTTP attempt for that call, whatever the
\* remaining retry budget; a response with status 'filled' or 'accepted'
\* returns success = true at once.
C34_ValidationErrorTerminal ==
    /\ [][\A t \in Tasks :
            BrokerAnswer(t)
                => /\ ReturnsAtOnce(task[t].s, PayloadOf(t), AnswerOf(t),
                                    task[t].retry_count)
                   /\ AnswerOf(t).status
                         \in {"filled", "accepted", "ValidationError"}
                         => ~NextAttempt(t)
                   /\ AnswerOf(t).status = "ValidationError"
                         => SeenFailed(t)
                   /\ AnswerOf(t).status \in {"filled", "accepted"}
                         => ~(task'[t].pc = task[t].pc
                                 /\ task'[t].sym = task[t].sym
                                 /\ task'[t].retries > task[t].retries)]_vars
    /\ [][\A t \in Tasks, i \in 1..2 :
            LegAnswer(t, i)
                => /\ ReturnsAtOnce(task[t].s, LegPayloadOf(t, i),
                                    LegAnswerOf(t, i), legs[t][i].retry_count)
                   /\ LegAnswerOf(t, i).status
                         \in {"filled", "accepted", "ValidationError"}
                         => ~LegNextAttempt(t, i)
                   /\ LegAnswerOf(t, i).status = "ValidationError"
                         => /\ cash_balance' = cash_balance
                            /\ legs'[t][i].retries = legs[t][i].retries + 1
                   /\ LegAnswerOf(t, i).status \in {"filled", "accepted"}
                         => legs'[t][i].pc \in {"returned", "raised"}]_vars

\* C34 happens: with two retries configured, a close was answered
\* ValidationError on its first attempt and the next request is a new call
C34_Witness ==
    \E t \in Tasks :
        /\ max_retries = 2
        /\ task[t].pc = "close" /\ task[t].retries = 1
        /\ task[t].retry_count = 0 /\ task[t].n = 2
        /\ api_calls[task[t].s]
              = <<ApiCall([action |-> "close", symbol |-> task[t].sym,
                           quantity |-> 0], "ValidationError")>>

\* an answer that is a transient failure for the client: no answer at all
\* (timeout, connection error, HTTP error without a JSON body), or a JSON
\* body of an unexpected shape
Transient(resp) ==
    resp.kind # "json"
        \/ resp.status \notin {"filled", "accepted", "ValidationError"}

\* what the attempt number retry_count + 1 of a call for strategy s does
\* with a transient failure: another attempt while the budget lasts, and
\* after the last one failure with a synthetic 'error' response, recorded
Retried(s, payload, resp, retry_count) ==
    Transient(resp)
        => LET r == make_request(World, s, payload, resp, retry_count)
               h == IF resp.kind = "json"
                    THEN Append(api_calls[s], ApiCall(payload, resp.status))
                    ELSE api_calls[s]
           IN /\ cash_balance' = cash_balance
              /\ IF retry_count < max_retries
                 THEN r.outcome = "again" /\ api_calls'[s] = h
                 ELSE /\ r.outcome = "failure"
                      /\ api_calls'[s] = Append(h, ApiCall(payload, "error"))

\* C35: for a broker-client call whose every attempt is a transient failure
\* (unexpected response shape, HTTP error, connection error or timeout) the
\* client makes a bounded number of attempts fixed by the configured retry
\* count (max_retries + 1), then returns success = false with a synthetic
\* error response; a transient failure followed by a successful attempt
\* within the budget returns success = true.
C35_TransientRetriesBounded ==
    /\ [](\A t \in Tasks :
            /\ task[t].pc \in {"close", "probe", "sized"}
                  => task[t].retry_count <= max_retries
            /\ \A i \in DOMAIN legs[t] :
                  legs[t][i].pc = "close"
                      => legs[t][i].retry_count <= max_retries)
    /\ [][\A t \in Tasks :
            BrokerAnswer(t)
                => /\ Retried(task[t].s, PayloadOf(t), AnswerOf(t),
                              task[t].retry_count)
                   /\ Transient(AnswerOf(t))
                         => IF task[t].retry_count < max_retries
                            THEN NextAttempt(t) /\ task'[t].n = task[t].n + 1
                            ELSE ~NextAttempt(t) /\ SeenFailed(t)
                   /\ task[t].retry_count > 0
                         => ReturnsAtOnce(task[t].s, PayloadOf(t),
                                          AnswerOf(t), task[t].retry_count)]_vars
    /\ [][\A t \in Tasks, i \in 1..2 :
            LegAnswer(t, i)
                => /\ Retried(task[t].s, LegPayloadOf(t, i),
                              LegAnswerOf(t, i), legs[t][i].retry_count)
                   /\ Transient(LegAnswerOf(t, i))
                         => IF legs[t][i].retry_count < max_retries
                            THEN LegNextAttempt(t, i)
                            ELSE /\ ~LegNextAttempt(t, i)
                                 /\ legs'[t][i].retries
                                       = legs[t][i].retries + 1
                   /\ legs[t][i].retry_count > 0
                         => ReturnsAtOnce(task[t].s, LegPayloadOf(t, i),
                                          LegAnswerOf(t, i),
                                          legs[t][i].retry_count)]_vars

\* C35 happens: with two retries configured the close of BBB timed out
\* twice and filled on the third attempt, and the plan went on to its
\* probe with the proceeds booked
C35_Witness ==
    \E t \in Tasks :
        /\ max_retries = 2 /\ broker["BBB"] = Script("recover", 2)
        /\ task[t].op = "long" /\ task[t].pc = "probe" /\ task[t].n = 4
        /\ api_calls[task[t].s]
              = <<ApiCall([action |-> "close", symbol |-> "BBB",
                           quantity |-> 0], "filled")>>
        /\ cash_balance[task[t].s]
              = 40 + FillPrice["BBB"] * FillQuantity["BBB"]

\* task t carried a signal that ran its plan: it was neither ignored nor
\* suppressed by the cooldown, and its type is one the engine knows
RanPlan(t) ==
    Executed(t) /\ task[t].op \in {"long", "short", "close", "multi"}

\* C36: absent stop() and force operations, two executions of the same
\* strategy that actually run a plan are separated by more than the
\* configured cooldown duration: the cooldown check of the second happens
\* strictly after the end time the first one set.
C36_ExecutionsSeparated ==
    \A t, u \in Tasks :
        (SameStrategy(t, u) /\ RanPlan(t) /\ RanPlan(u)
            /\ task[t].t0 <= task[u].t0)
            => task[u].t0 > task[t].t0 + COOLDOWN_PERIOD_HOURS

\* C37: the two cooldown queries agree at every instant: for every strategy
\* state and every value of now, now exactly equal to cooldown_end_time
\* included, isActive (check_cooldown) returns true if and only if info
\* (get_cooldown_info) reports active = true, and both leave the cooldown
\* fields in the same state.
C37_CooldownQueriesAgree ==
    \A s \in Strategies :
        /\ check_cooldown(World, s).ret = get_cooldown_info(World, s).ret
        /\ check_cooldown(World, s).w.in_cooldown[s]
              = get_cooldown_info(World, s).w.in_cooldown[s]
        /\ check_cooldown(World, s).w.cooldown_end_time[s]
              = get_cooldown_info(World, s).w.cooldown_end_time[s]

\* the signal types process_signal knows
ValidSignals == {"long", "short", "close"}

\* task t carried a signal of an unknown type that passed the guard and the
\* cooldown, and returned
UnknownReturned(t) ==
    /\ task[t].pc = "done" /\ Executed(t)
    /\ task[t].op \notin ValidSignals \cup {"multi"} \cup ForceOps

\* C38: process_signal called with a signal type other than long, short or
\* close on an idle strategy whose cooldown is inactive returns status
\* 'error', issues no broker call, leaves cash_balance and the call history
\* unchanged and is_processing false on return, but has already started the
\* cooldown, so the next valid signal within the cooldown window is
\* suppressed.
C38_UnknownSignalStartsCooldown ==
    /\ [][\A t \in Tasks :
            (/\ StartExecute(t)
             /\ task[t].op \notin ValidSignals \cup {"multi"}
             /\ ~is_processing[task[t].s]
             /\ ~check_cooldown(World, task[t].s).ret)
                => /\ task'[t].pc = "done" /\ task'[t].result = "error"
                   /\ task'[t].n = 0 /\ legs'[t] = <<>>
                   /\ served' = served
                   /\ cash_balance' = cash_balance
                   /\ api_calls' = api_calls
                   /\ ~is_processing'[task[t].s]
                   /\ in_cooldown'[task[t].s]
                   /\ cooldown_end_time'[task[t].s]
                         = now + COOLDOWN_PERIOD_HOURS]_vars
    /\ [][\A t, u \in Tasks :
            (/\ SameStrategy(t, u) /\ UnknownReturned(u)
             /\ StartExecute(t) /\ task[t].op \in ValidSignals
             /\ ~is_processing[task[t].s]
             /\ now < task[u].t0 + COOLDOWN_PERIOD_HOURS)
                => /\ task'[t].pc = "done" /\ task'[t].suppressed
                   /\ task'[t].n = 0 /\ task'[t].t0 = None
                   /\ cash_balance' = cash_balance
                   /\ api_calls' = api_calls]_vars

\* C38 happens: six hours after a signal of an unknown type returned
\* 'error' with nothing requested, a valid signal was suppressed by the
\* cooldown the first one started
C38_Witness ==
    \E t, u \in Tasks :
        /\ SameStrategy(t, u) /\ UnknownReturned(u)
        /\ task[u].result = "error" /\ task[u].n = 0 /\ task[u].t0 = 0
        /\ task[t].op \in ValidSignals /\ task[t].pc = "done"
        /\ task[t].suppressed /\ now = 6
        /\ cooldown_end_time[task[t].s] = COOLDOWN_PERIOD_HOURS
        /\ api_calls[task[t].s] = <<>>

\* a step of the force operation task t carries
ForceStep(t) ==
    /\ task[t].op \in ForceOps
    /\ \/ StartForce(t) \/ BrokerAnswer(t) \/ GatherReturn(t)
       \/ SleepReturn(t) \/ \E i \in 1..2 : LegAnswer(t, i)

\* C39: force_long / force_short / force_close neither read nor write the
\* cooldown: they run their plan while a cooldown is active, never start a
\* cooldown, and leave in_cooldown and cooldown_end_time exactly as they
\* were, so a webhook signal arriving right after a force operation on a
\* cooled-down strategy is still executed.
C39_ForceIgnoresCooldown ==
    /\ [][\A t \in Tasks :
            ForceStep(t) => UNCHANGED <<in_cooldown, cooldown_end_time>>]_vars
    /\ [][\A t \in Tasks :
            StartForce(t)
                => /\ task'[t].t0 = now /\ ~task'[t].suppressed
                   /\ task'[t].n > 0 /\ InFlight(t)']_vars
    /\ [][\A t, u \in Tasks :
            (/\ SameStrategy(t, u)
             /\ task[u].op \in ForceOps /\ task[u].pc = "done"
             /\ StartExecute(t) /\ task[t].op \in ValidSignals
             /\ ~is_processing[task[t].s]
             /\ ~CooldownActive(task[t].s))
                => /\ task'[t].t0 = now /\ ~task'[t].suppressed
                   /\ task'[t].n > 0]_vars

\* C39 happens: a force operation ran its plan and returned while the
\* cooldown the operator started was active, the cooldown fields being as
\* the start left them
C39_Witness ==
    \E t \in Tasks :
        /\ task[t].op \in ForceOps /\ task[t].pc = "done"
        /\ task[t].result = "returned" /\ task[t].n > 0
        /\ task[t].t0 = 6 /\ now = 6
        /\ in_cooldown[task[t].s]
        /\ cooldown_end_time[task[t].s] = COOLDOWN_PERIOD_HOURS

\* the step applies the fill task t (or its i-th gathered close) awaits to
\* the balance strategy s has at that moment: less price * quantity for a
\* buy, plus price * quantity for a close
AppliesFill(s, t) ==
    /\ task[t].s = s /\ BrokerAnswer(t) /\ AnswerFills(t)
    /\ cash_balance'[s]
          = IF task[t].pc = "close"
            THEN cash_balance[s] + AnswerOf(t).price * AnswerOf(t).quantity
            ELSE cash_balance[s] - AnswerOf(t).price * AnswerOf(t).quantity
LegAppliesFill(s, t, i) ==
    /\ task[t].s = s /\ LegAnswer(t, i) /\ LegFills(t, i)
    /\ cash_balance'[s]
          = cash_balance[s]
              + LegAnswerOf(t, i).price * LegAnswerOf(t, i).quantity

\* C40: ledger updates are applied as deltas to the balance current at the
\* time of the update, never to a snapshot read before a broker call: once a
\* manual override has set cash_balance to M while an execution is suspended
\* in a broker call, the balance stays M until the execution's next fill
\* makes it M - price * quantity (buy) or M + price * quantity (close), or
\* until the next override; nothing overwrites the manual write with another
\* value.  As a step property: a strategy's balance changes only in an
\* override of that strategy or in a fill of an execution on it, which adds
\* or takes price * quantity to or from the balance of that moment.
C40_LedgerDeltas ==
    [][\A s \in Strategies :
          cash_balance'[s] # cash_balance[s]
              => \/ \E amount \in LedgerAmounts : UpdateCashRequest(s, amount)
                 \/ \E t \in Tasks : AppliesFill(s, t)
                 \/ \E t \in Tasks, i \in 1..2 : LegAppliesFill(s, t, i)]_vars
====
